---- MODULE Spec2Model ----
(***************************************************************************)
(* Model of the fs-server of zkl2333/mcp-toolkit: the path authorizer      *)
(* (lib/security.ts), the single-file and batch operations                 *)
(* (lib/file-operations.ts), the force-delete confirmation guard and the   *)
(* confirmation gate of the exiftool-server.                               *)
(*                                                                         *)
(* Paths are strings, modelled as sequences of one-character strings, so   *)
(* that prefix tests, separators and extensions are computed as the code   *)
(* computes them.  The build modelled is the POSIX one (sep = "/",         *)
(* platform() # "win32").                                                  *)
(***************************************************************************)
EXTENDS Naturals, Sequences, FiniteSets, TLC

VARIABLES
  fs,     \* the filesystem
  cfg,    \* SECURITY_CONFIG
  queue,  \* the calls still to be made, in order
  last,   \* the call made last: its arguments, its outcome and what it did
  prev,   \* the call made before it
  run,    \* the call in progress, for an operation modelled step by step
  seen    \* what the last read by another client saw

vars == <<fs, cfg, queue, last, prev, run, seen>>

(***************************************************************************)
(* Strings                                                                 *)
(***************************************************************************)
sep == "/"
BS == "\\"
NUL == "0"
Dot == <<".">>
DotDot == <<".", ".">>
Root == <<"/">>

StartsWith(s, pre) ==
  /\ Len(pre) <= Len(s)
  /\ SubSeq(s, 1, Len(pre)) = pre

EndsWith(s, suf) ==
  /\ Len(suf) <= Len(s)
  /\ SubSeq(s, Len(s) - Len(suf) + 1, Len(s)) = suf

Includes(s, c) == \E i \in 1..Len(s) : s[i] = c

ReplaceAll(s, c, d) == [i \in 1..Len(s) |-> IF s[i] = c THEN d ELSE s[i]]

RECURSIVE SplitOn(_, _)
SplitOn(s, c) ==
  IF s = <<>> THEN << <<>> >>
  ELSE LET rest == SplitOn(Tail(s), c) IN
       IF Head(s) = c THEN << <<>> >> \o rest
       ELSE << <<Head(s)>> \o Head(rest) >> \o Tail(rest)

RECURSIVE Join(_)
Join(segs) ==
  IF segs = <<>> THEN <<>>
  ELSE IF Len(segs) = 1 THEN Head(segs)
  ELSE Head(segs) \o <<sep>> \o Join(Tail(segs))

(***************************************************************************)
(* node:path (posix)                                                       *)
(***************************************************************************)
RECURSIVE normalizeString(_, _, _)
normalizeString(segs, out, allowAboveRoot) ==
  IF segs = <<>> THEN out
  ELSE LET h == Head(segs)
           t == Tail(segs) IN
       IF h = <<>> \/ h = Dot THEN normalizeString(t, out, allowAboveRoot)
       ELSE IF h = DotDot THEN
              IF out # <<>> /\ out[Len(out)] # DotDot
                THEN normalizeString(t, SubSeq(out, 1, Len(out) - 1), allowAboveRoot)
              ELSE IF allowAboveRoot
                THEN normalizeString(t, Append(out, DotDot), allowAboveRoot)
              ELSE normalizeString(t, out, allowAboveRoot)
       ELSE normalizeString(t, Append(out, h), allowAboveRoot)

isAbsolute(p) == p # <<>> /\ p[1] = sep

normalize(p) ==
  IF p = <<>> THEN Dot
  ELSE LET abs == isAbsolute(p)
           trailing == p[Len(p)] = sep
           body == Join(normalizeString(SplitOn(p, sep), <<>>, ~abs)) IN
       IF body = <<>>
         THEN (IF abs THEN Root ELSE IF trailing THEN <<".", "/">> ELSE Dot)
       ELSE (IF abs THEN <<sep>> ELSE <<>>) \o body
              \o (IF trailing THEN <<sep>> ELSE <<>>)

\* process.cwd() and os.homedir() of the modelled process
cwd == <<"/", "w">>
homedir == <<"/", "x">>

resolve(p) ==
  LET full == IF isAbsolute(p) THEN p ELSE cwd \o <<sep>> \o p IN
  <<sep>> \o Join(normalizeString(SplitOn(full, sep), <<>>, FALSE))

\* the index of the separator that ends the directory part, 0 if none
RECURSIVE dirnameEnd(_, _, _)
dirnameEnd(p, i, matchedSlash) ==
  IF i < 2 THEN 0
  ELSE IF p[i] = sep
         THEN (IF ~matchedSlash THEN i ELSE dirnameEnd(p, i - 1, matchedSlash))
       ELSE dirnameEnd(p, i - 1, FALSE)

dirname(p) ==
  IF p = <<>> THEN Dot
  ELSE LET hasRoot == p[1] = sep
           end == dirnameEnd(p, Len(p), TRUE) IN
       IF end = 0 THEN (IF hasRoot THEN Root ELSE Dot)
       ELSE IF hasRoot /\ end = 2 THEN <<sep, sep>>
       ELSE SubSeq(p, 1, end - 1)

(***************************************************************************)
(* lib/security.ts: pure helpers                                           *)
(***************************************************************************)
normalizePath(inputPath) ==
  IF inputPath = <<>> THEN <<>>
  ELSE ReplaceAll(normalize(inputPath), BS, sep)

expandHome(inputPath) ==
  IF inputPath = <<>> \/ inputPath[1] # "~" THEN inputPath
  ELSE IF inputPath = <<"~">> \/ StartsWith(inputPath, <<"~", "/">>)
            \/ StartsWith(inputPath, <<"~", BS>>)
         THEN homedir \o Tail(inputPath)
       ELSE inputPath

\* the prefix test without the trailing separator
allowedDirMatches_NoSeparator(normalizedPath, allowedDir) ==
  LET normalizedAllowedDir == normalizePath(resolve(expandHome(allowedDir))) IN
  \/ normalizedPath = normalizedAllowedDir
  \/ StartsWith(normalizedPath, normalizedAllowedDir)

allowedDirMatches(normalizedPath, allowedDir) ==
  LET normalizedAllowedDir == normalizePath(resolve(expandHome(allowedDir)))
      allowedDirWithSep ==
        IF EndsWith(normalizedAllowedDir, <<sep>>) THEN normalizedAllowedDir
        ELSE normalizedAllowedDir \o <<sep>> IN
  \/ normalizedPath = normalizedAllowedDir
  \/ StartsWith(normalizedPath, allowedDirWithSep)

isPathWithinAllowedDirectories(requestedPath, allowedDirectories) ==
  IF requestedPath = <<>> \/ allowedDirectories = <<>> THEN FALSE
  ELSE LET normalizedPath == normalizePath(resolve(expandHome(requestedPath))) IN
       \E i \in 1..Len(allowedDirectories) :
         /\ allowedDirectories[i] # <<>>
         /\ allowedDirMatches(normalizedPath, allowedDirectories[i])

containsIllegalCharacters(inputPath) == Includes(inputPath, NUL)

(***************************************************************************)
(* The filesystem (node:fs).  fs maps the path of every existing entry to  *)
(* its node; kind is "dir", "file" or "link"; data is a file's content,    *)
(* writable its owner-write bit (mode & 0o200), target a link's target.    *)
(***************************************************************************)
Dir == [kind |-> "dir", data |-> 0, writable |-> TRUE, target |-> <<>>]
File(d) == [kind |-> "file", data |-> d, writable |-> TRUE, target |-> <<>>]
ReadOnlyFile(d) == [kind |-> "file", data |-> d, writable |-> FALSE, target |-> <<>>]
Link(t) == [kind |-> "link", data |-> 0, writable |-> TRUE, target |-> t]

Child(dir, name) == IF dir = Root THEN dir \o name ELSE dir \o <<sep>> \o name

\* Path resolution as the kernel does it: component by component from the
\* real directory cur, following links (the last one only when followLast).
\* On ENOENT path is the entry that is missing, final whether it is the last
\* component (so that the entry could be created).
RECURSIVE Walk(_, _, _, _, _)
Walk(f, cur, segs, followLast, fuel) ==
  IF segs = <<>> THEN [err |-> "OK", path |-> cur, final |-> TRUE]
  ELSE LET h == Head(segs)
           t == Tail(segs) IN
       IF h = <<>> \/ h = Dot THEN Walk(f, cur, t, followLast, fuel)
       ELSE IF h = DotDot THEN Walk(f, dirname(cur), t, followLast, fuel)
       ELSE LET child == Child(cur, h) IN
            IF child \notin DOMAIN f
              THEN [err |-> "ENOENT", path |-> child, final |-> t = <<>>]
            ELSE IF f[child].kind = "link" /\ (t # <<>> \/ followLast) THEN
                   IF fuel = 0 THEN [err |-> "ELOOP", path |-> child, final |-> FALSE]
                   ELSE Walk(f, IF isAbsolute(f[child].target) THEN Root ELSE cur,
                             SplitOn(f[child].target, sep) \o t, followLast, fuel - 1)
            ELSE IF t # <<>> /\ f[child].kind # "dir"
                   THEN [err |-> "ENOTDIR", path |-> child, final |-> FALSE]
            ELSE Walk(f, child, t, followLast, fuel)

\* a relative path is resolved from the working directory
Lookup(f, p, followLast) ==
  IF isAbsolute(p) THEN Walk(f, Root, SplitOn(p, sep), followLast, Cardinality(DOMAIN f))
  ELSE Walk(f, Root, SplitOn(cwd \o <<sep>> \o p, sep), followLast, Cardinality(DOMAIN f))

\* fs.access(p): "OK" or the errno
access(f, p) == Lookup(f, p, TRUE).err

\* fs.realpath(p)
realpath(f, p) == Lookup(f, p, TRUE)

\* fs.stat(p) and fs.lstat(p): the node, when err = "OK"
stat(f, p) ==
  LET r == Lookup(f, p, TRUE) IN
  [err |-> r.err, node |-> IF r.err = "OK" THEN f[r.path] ELSE Dir, path |-> r.path]

lstat(f, p) ==
  LET r == Lookup(f, p, FALSE) IN
  [err |-> r.err, node |-> IF r.err = "OK" THEN f[r.path] ELSE Dir, path |-> r.path]

(***************************************************************************)
(* lib/security.ts: validatePath                                           *)
(***************************************************************************)
Ok(p) == [ok |-> TRUE, kind |-> "NONE", path |-> p]
Err(k) == [ok |-> FALSE, kind |-> k, path |-> <<>>]

\* The loop of validateNonExistentPath from currentDir.  The PATH_NOT_ALLOWED
\* thrown inside the try block is caught by the same catch as a failed
\* realpath, so the walk goes on to the next parent.
RECURSIVE walkUpParents(_, _, _, _)
walkUpParents(f, c, normalizedPath, currentDir) ==
  IF currentDir # <<>> /\ currentDir # dirname(currentDir) THEN
    LET real == realpath(f, currentDir) IN
    IF real.err = "OK"
         /\ isPathWithinAllowedDirectories(normalizePath(real.path), c.allowedDirectories)
      THEN Ok(normalizedPath)
    ELSE walkUpParents(f, c, normalizedPath, dirname(currentDir))
  ELSE IF ~isPathWithinAllowedDirectories(normalizedPath, c.allowedDirectories)
    THEN Err("PATH_NOT_ALLOWED")
  ELSE Ok(normalizedPath)

validateNonExistentPath(f, c, normalizedPath) ==
  walkUpParents(f, c, normalizedPath, dirname(normalizedPath))

validatePath(f, c, requestedPath) ==
  IF requestedPath = <<>> THEN Err("VALIDATION_ERROR")
  ELSE LET normalizedPath == normalizePath(resolve(expandHome(requestedPath))) IN
       IF containsIllegalCharacters(normalizedPath) THEN Err("VALIDATION_ERROR")
       ELSE IF c.enablePathTraversalProtection
               /\ ~isPathWithinAllowedDirectories(normalizedPath, c.allowedDirectories)
         THEN Err("PATH_NOT_ALLOWED")
       ELSE LET a == access(f, normalizedPath) IN
            IF a = "OK" THEN Ok(normalizedPath)
            ELSE IF a = "ENOENT" THEN validateNonExistentPath(f, c, normalizedPath)
            ELSE Err("OPERATION_FAILED")

(***************************************************************************)
(* The security policy (SECURITY_CONFIG)                                   *)
(***************************************************************************)
W == <<"/", "w">>
XW == <<"/", "x", "w">>
WX == <<"/", "w", "x">>
Sibling == <<"/", "w", "x">>

SecurityConfig(protect, allowForce, needConfirm, dirs) ==
  [enablePathTraversalProtection |-> protect,
   allowForceDelete |-> allowForce,
   forceDeleteRequiresConfirmation |-> needConfirm,
   allowedDirectories |-> dirs]

(***************************************************************************)
(* SpecPath: validatePath on a tree with links, for every short string and *)
(* a set of longer ones                                                    *)
(***************************************************************************)
MaxLen == 3

Alphabet == {"/", ".", "~", BS, "w", "x"}

ShortPaths == UNION {[1..k -> Alphabet] : k \in 0..MaxLen}

LongPaths ==
  { <<"/", "w", "/", "l">>,                          \* link to a file outside
    <<"/", "w", "/", "m">>,                          \* link to a file inside
    <<"/", "w", "/", "g">>,                          \* dangling link
    <<"/", "w", "/", "d">>,                          \* link to a directory outside
    <<"/", "w", "/", "d", "/", "x">>,                \* a file behind that link
    <<"/", "w", "/", "d", "/", "n">>,                \* a new file behind that link
    <<"/", "w", "/", "n", "/", "n">>,                \* a new file in a new directory
    <<"/", "w", "/", "w", "/", "n">>,                \* below a regular file
    <<"/", "w", "/", ".", ".", "/", "x", "/", "x">>, \* traversal out of /w
    <<"/", "w", "/", "n", "/", ".", ".", "/", "w">>, \* traversal inside /w
    <<"/", "w", "x", "/", "w">>,                     \* in the sibling /wx
    <<"/", "x", "/", "w", "/", "n">>,                \* below the missing /x/w
    <<"~", "/", "w", "/", "n">>,                     \* the same through ~
    <<"~", BS, ".", ".", BS, "w", BS, "w">>,         \* backslashes
    <<"/", "w", "/", "d", BS, ".", ".", BS, "x">>,   \* .. behind a link
    <<"/", "x", "/", ".", ".", BS, ".", ".", BS, "w">>,
    <<"/", "w", "/", NUL>> }

PathInputs == ShortPaths \cup LongPaths

PathTree ==
  (Root :> Dir) @@ (W :> Dir) @@ (<<"/", "w", "/", "w">> :> File(1))
  @@ (<<"/", "w", "/", "x">> :> Dir)
  @@ (<<"/", "w", "x">> :> Dir) @@ (<<"/", "w", "x", "/", "w">> :> File(3))
  @@ (<<"/", "x">> :> Dir) @@ (<<"/", "x", "/", "x">> :> File(9))
  @@ (<<"/", "w", "/", "l">> :> Link(<<"/", "x", "/", "x">>))
  @@ (<<"/", "w", "/", "m">> :> Link(<<"w">>))
  @@ (<<"/", "w", "/", "g">> :> Link(<<"/", "x", "/", "n">>))
  @@ (<<"/", "w", "/", "d">> :> Link(<<"/", "x">>))

AllowLists ==
  { <<>>, <<W>>, <<W, <<"/", "x", "w">> >>, << <<>>, <<"~", "/", "w">> >> }

NoCall == [op |-> "none"]
Idle == [pc |-> "idle"]
NoRead == [op |-> "none"]

InitPath ==
  /\ fs = PathTree
  /\ cfg \in {SecurityConfig(p, TRUE, TRUE, a) : p \in BOOLEAN, a \in AllowLists}
  /\ queue \in {<<[op |-> "validatePath", path |-> P]>> : P \in PathInputs}
  /\ last = NoCall
  /\ prev = NoCall
  /\ run = Idle
  /\ seen = NoRead

ValidatePathCall ==
  /\ queue # <<>> /\ Head(queue).op = "validatePath"
  /\ last' = [op |-> "validatePath", arg |-> Head(queue).path,
              res |-> validatePath(fs, cfg, Head(queue).path)]
  /\ prev' = last
  /\ queue' = Tail(queue)
  /\ UNCHANGED <<fs, cfg, run, seen>>

NextPath == ValidatePathCall

SpecPath == InitPath /\ [][NextPath]_vars

(***************************************************************************)
(* Path authorization: what the claims say, in terms of path components    *)
(***************************************************************************)
\* The components of the absolute form of p, with "." and ".." resolved
Components(p) ==
  LET e == expandHome(p)
      full == IF isAbsolute(e) THEN e ELSE cwd \o <<sep>> \o e IN
  normalizeString(SplitOn(full, sep), <<>>, FALSE)

IsPrefixSeq(a, b) == Len(a) <= Len(b) /\ SubSeq(b, 1, Len(a)) = a

\* p is an allowed directory or a descendant of one
InsideAllowList(p, dirs) ==
  \E i \in 1..Len(dirs) :
    /\ dirs[i] # <<>>
    /\ IsPrefixSeq(Components(dirs[i]), Components(p))

Validated == last.op = "validatePath"

IsSymlink(f, p) ==
  LET n == lstat(f, normalizePath(resolve(expandHome(p)))) IN
  n.err = "OK" /\ n.node.kind = "link"

\* the real target of the link is missing or outside the allow-list
TargetEscapes(f, p, dirs) ==
  LET r == realpath(f, normalizePath(resolve(expandHome(p)))) IN
  r.err # "OK" \/ ~InsideAllowList(r.path, dirs)

\* C2: a symbolic link inside the allow-list whose real target is outside it
\* (or cannot be resolved) is refused with SYMLINK_TARGET_INVALID.
C2_SymlinkEscapeRefused ==
  (/\ Validated /\ cfg.enablePathTraversalProtection
   /\ last.arg # <<>>
   /\ InsideAllowList(last.arg, cfg.allowedDirectories)
   /\ IsSymlink(fs, last.arg)
   /\ TargetEscapes(fs, last.arg, cfg.allowedDirectories))
    => (~last.res.ok /\ last.res.kind = "SYMLINK_TARGET_INVALID")

\* the nearest ancestor directory of p that exists, <<>> if none does
RECURSIVE NearestExisting(_, _)
NearestExisting(f, dir) ==
  IF realpath(f, dir).err = "OK" THEN dir
  ELSE IF dir = dirname(dir) THEN <<>>
  ELSE NearestExisting(f, dirname(dir))

\* C3: a path that does not exist and whose nearest existing ancestor is,
\* by its real path, outside the allow-list is refused with PATH_NOT_ALLOWED.
C3_MissingPathNeedsAllowedAncestor ==
  LET np == normalizePath(resolve(expandHome(last.arg)))
      anc == NearestExisting(fs, dirname(np)) IN
  (/\ Validated /\ cfg.enablePathTraversalProtection
   /\ last.arg # <<>>
   /\ ~containsIllegalCharacters(np)
   /\ InsideAllowList(last.arg, cfg.allowedDirectories)
   /\ access(fs, np) = "ENOENT"
   /\ anc # <<>>
   /\ ~InsideAllowList(realpath(fs, anc).path, cfg.allowedDirectories))
    => (~last.res.ok /\ last.res.kind = "PATH_NOT_ALLOWED")

(***************************************************************************)
(* node:path: basename and join                                            *)
(***************************************************************************)
RECURSIVE stripTrailingSep(_)
stripTrailingSep(p) ==
  IF Len(p) > 1 /\ p[Len(p)] = sep THEN stripTrailingSep(SubSeq(p, 1, Len(p) - 1))
  ELSE p

basename(p) ==
  LET q == stripTrailingSep(p)
      segs == SplitOn(q, sep) IN
  IF q = Root THEN <<>> ELSE segs[Len(segs)]

join(a, b) ==
  IF a = <<>> /\ b = <<>> THEN Dot
  ELSE IF a = <<>> THEN normalize(b)
  ELSE IF b = <<>> THEN normalize(a)
  ELSE normalize(a \o <<sep>> \o b)

(***************************************************************************)
(* lib/file-operations.ts: isSensitiveFile, isReadOnlyFile                 *)
(***************************************************************************)
UpperCase == <<"A", "B", "C", "D", "E", "F", "G", "H", "I", "J", "K", "L", "M", "N", "O", "P", "Q", "R", "S", "T", "U", "V", "W", "X", "Y", "Z">>
LowerCase == <<"a", "b", "c", "d", "e", "f", "g", "h", "i", "j", "k", "l", "m", "n", "o", "p", "q", "r", "s", "t", "u", "v", "w", "x", "y", "z">>

toLower(c) ==
  IF \E i \in 1..Len(UpperCase) : UpperCase[i] = c
    THEN LowerCase[CHOOSE i \in 1..Len(UpperCase) : UpperCase[i] = c]
  ELSE c

lowered(p) == [i \in 1..Len(p) |-> toLower(p[i])]

\* the extensions of the four extension patterns (all /i)
SensitiveExtensions ==
  {
    <<"i", "n", "i">>, <<"c", "f", "g">>, <<"c", "o", "n", "f">>,
    <<"c", "o", "n", "f", "i", "g">>, <<"j", "s", "o", "n">>,
    <<"x", "m", "l">>, <<"y", "a", "m", "l">>, <<"y", "m", "l">>,
    <<"e", "x", "e">>, <<"d", "l", "l">>, <<"s", "y", "s">>,
    <<"b", "a", "t">>, <<"c", "m", "d">>, <<"p", "s", "1">>, <<"s", "h">>,
    <<"b", "a", "s", "h">>, <<"d", "b">>, <<"s", "q", "l", "i", "t", "e">>,
    <<"m", "d", "b">>, <<"a", "c", "c", "d", "b">>, <<"k", "e", "y">>,
    <<"p", "e", "m">>, <<"c", "r", "t">>, <<"c", "e", "r", "t">>,
    <<"p", "1", "2">>, <<"p", "f", "x">>
  }

\* the directory names of the two directory patterns (all /i)
SensitiveDirectories ==
  {
    <<"s", "y", "s", "t", "e", "m", "3", "2">>,
    <<"s", "y", "s", "w", "o", "w", "6", "4">>,
    <<"w", "i", "n", "d", "o", "w", "s">>,
    <<"p", "r", "o", "g", "r", "a", "m", " ", "f", "i", "l", "e", "s">>,
    <<"a", "p", "p", "l", "i", "c", "a", "t", "i", "o", "n", "s">>,
    <<"e", "t", "c">>, <<"b", "i", "n">>, <<"s", "b", "i", "n">>,
    <<"u", "s", "r", "/", "b", "i", "n">>,
    <<"u", "s", "r", "/", "s", "b", "i", "n">>
  }

isSeparator(c) == c = "/" \/ c = BS

\* /(?:^|[\/\\])name[\/\\]/i
matchesDirectoryPattern(p, name) ==
  \E i \in 1..Len(p) :
    /\ i = 1 \/ isSeparator(p[i - 1])
    /\ i + Len(name) <= Len(p)
    /\ SubSeq(lowered(p), i, i + Len(name) - 1) = name
    /\ isSeparator(p[i + Len(name)])

\* /\.ext$/i
matchesExtensionPattern(p, ext) == EndsWith(lowered(p), Dot \o ext)

isSensitiveFile(filePath) ==
  \/ \E name \in SensitiveDirectories : matchesDirectoryPattern(filePath, name)
  \/ \E ext \in SensitiveExtensions : matchesExtensionPattern(filePath, ext)

\* (stats.mode & 0o200) === 0
isReadOnlyFile(stats) == ~stats.writable

(***************************************************************************)
(* node:fs: the calls that change the filesystem.  Each gives the errno     *)
(* ("OK" when it succeeds) and the filesystem afterwards.                  *)
(***************************************************************************)
FsOk(f) == [err |-> "OK", fs |-> f]
FsErr(e, f) == [err |-> e, fs |-> f]

Remove(f, p) == [x \in DOMAIN f \ {p} |-> f[x]]
Put(f, p, n) == [x \in DOMAIN f \cup {p} |-> IF x = p THEN n ELSE f[x]]

Below(f, d) == {x \in DOMAIN f : x # d /\ StartsWith(x, IF d = Root THEN d ELSE d \o <<sep>>)}

\* fs.unlink(p)
unlink(f, p) ==
  LET l == Lookup(f, p, FALSE) IN
  IF l.err # "OK" THEN FsErr(l.err, f)
  ELSE IF f[l.path].kind = "dir" THEN FsErr("EISDIR", f)
  ELSE FsOk(Remove(f, l.path))

\* fs.rmdir(p)
rmdir(f, p) ==
  LET l == Lookup(f, p, FALSE) IN
  IF l.err # "OK" THEN FsErr(l.err, f)
  ELSE IF f[l.path].kind # "dir" THEN FsErr("ENOTDIR", f)
  ELSE IF Below(f, l.path) # {} THEN FsErr("ENOTEMPTY", f)
  ELSE FsOk(Remove(f, l.path))

\* fs.mkdir(p, { recursive: true })
RECURSIVE mkdirFrom(_, _, _)
mkdirFrom(f, cur, segs) ==
  IF segs = <<>> THEN FsOk(f)
  ELSE LET h == Head(segs)
           t == Tail(segs) IN
       IF h = <<>> \/ h = Dot THEN mkdirFrom(f, cur, t)
       ELSE IF h = DotDot THEN mkdirFrom(f, dirname(cur), t)
       ELSE LET child == Child(cur, h) IN
            IF child \notin DOMAIN f THEN mkdirFrom(Put(f, child, Dir), child, t)
            ELSE IF f[child].kind = "dir" THEN mkdirFrom(f, child, t)
            ELSE IF f[child].kind = "file"
              THEN FsErr(IF t = <<>> THEN "EEXIST" ELSE "ENOTDIR", f)
            ELSE LET r == Lookup(f, child, TRUE) IN
                 IF r.err = "OK" /\ f[r.path].kind = "dir" THEN mkdirFrom(f, r.path, t)
                 ELSE IF r.err = "OK"
                   THEN FsErr(IF t = <<>> THEN "EEXIST" ELSE "ENOTDIR", f)
                 ELSE FsErr(IF r.err = "ENOENT" THEN "EEXIST" ELSE r.err, f)

mkdirRecursive(f, p) ==
  mkdirFrom(f, Root, SplitOn(IF isAbsolute(p) THEN p ELSE cwd \o <<sep>> \o p, sep))

\* the entry a new name p would be: its real parent directory and its name
Entry(f, p) ==
  LET l == Lookup(f, p, FALSE) IN
  IF l.err = "OK" THEN [err |-> "OK", path |-> l.path, exists |-> TRUE]
  ELSE IF l.err = "ENOENT" /\ l.final
    THEN [err |-> "OK", path |-> l.path, exists |-> FALSE]
  ELSE [err |-> l.err, path |-> l.path, exists |-> FALSE]

\* the entry old and everything below it, moved to new
MoveTree(f, old, new) ==
  LET moved == {old} \cup Below(f, old)
      kept == (DOMAIN f \ moved) \ ({new} \cup Below(f, new))
      renamed(x) == new \o SubSeq(x, Len(old) + 1, Len(x)) IN
  [y \in kept \cup {renamed(x) : x \in moved} |->
     IF y \in kept THEN f[y]
     ELSE f[CHOOSE x \in moved : renamed(x) = y]]

\* fs.rename(oldPath, newPath)
rename(f, oldPath, newPath) ==
  LET o == Lookup(f, oldPath, FALSE)
      n == Entry(f, newPath) IN
  IF o.err # "OK" THEN FsErr(o.err, f)
  ELSE IF n.err # "OK" THEN FsErr(n.err, f)
  ELSE IF o.path = n.path THEN FsOk(f)
  ELSE IF f[o.path].kind = "dir" /\ StartsWith(n.path, o.path \o <<sep>>)
    THEN FsErr("EINVAL", f)
  ELSE IF n.exists /\ f[o.path].kind = "dir" /\ f[n.path].kind # "dir"
    THEN FsErr("ENOTDIR", f)
  ELSE IF n.exists /\ f[o.path].kind # "dir" /\ f[n.path].kind = "dir"
    THEN FsErr("EISDIR", f)
  ELSE IF n.exists /\ f[n.path].kind = "dir" /\ Below(f, n.path) # {}
    THEN FsErr("ENOTEMPTY", f)
  ELSE FsOk(MoveTree(f, o.path, n.path))

\* fs.copyFile(src, dest): dest is opened through links, created if missing
copyFileFs(f, src, dest) ==
  LET s == Lookup(f, src, TRUE)
      d == Lookup(f, dest, TRUE) IN
  IF s.err # "OK" THEN FsErr(s.err, f)
  ELSE IF f[s.path].kind = "dir" THEN FsErr("EISDIR", f)
  ELSE IF d.err = "OK" THEN
         IF f[d.path].kind = "dir" THEN FsErr("EISDIR", f)
         ELSE IF ~f[d.path].writable THEN FsErr("EACCES", f)
         ELSE FsOk(Put(f, d.path, [f[d.path] EXCEPT !.data = f[s.path].data]))
  ELSE IF d.err = "ENOENT" /\ d.final THEN FsOk(Put(f, d.path, f[s.path]))
  ELSE FsErr(d.err, f)

(***************************************************************************)
(* The elicitation channel (server.server.elicitInput) as one call finds   *)
(* it.  A field of the answer's content is a JavaScript value: true,       *)
(* false, another truthy value, or absent.                                 *)
(***************************************************************************)
JsValues == {"true", "false", "truthy", "absent"}
ElicitActions == {"accept", "decline", "cancel"}

Unavailable ==
  [available |-> FALSE, throws |-> FALSE, action |-> "cancel", hasContent |-> FALSE,
   confirm |-> "absent", acknowledged |-> "absent"]
Throwing == [Unavailable EXCEPT !.available = TRUE, !.throws = TRUE]
Answer(a, c, k) ==
  [available |-> TRUE, throws |-> FALSE, action |-> a, hasContent |-> TRUE,
   confirm |-> c, acknowledged |-> k]
BareAnswer(a) == [Answer(a, "absent", "absent") EXCEPT !.hasContent = FALSE]

ElicitEnvs ==
  {Unavailable, Throwing}
  \cup {Answer(a, c, k) : a \in ElicitActions, c \in JsValues, k \in JsValues}
  \cup {BareAnswer(a) : a \in ElicitActions}

(***************************************************************************)
(* lib/security.ts: the force-delete guard                                 *)
(***************************************************************************)
\* result.content?.confirm === true && result.content?.acknowledged === true
acceptedContent(el) ==
  el.hasContent /\ el.confirm = "true" /\ el.acknowledged = "true"

\* the guard with a truthiness test in place of === true
confirmSensitiveDeleteAction_Truthy(el) ==
  IF ~el.available THEN FALSE
  ELSE IF el.throws THEN FALSE
  ELSE IF el.action = "accept"
    THEN el.hasContent /\ el.confirm \in {"true", "truthy"}
           /\ el.acknowledged \in {"true", "truthy"}
  ELSE FALSE

confirmSensitiveDeleteAction(el) ==
  IF ~el.available THEN FALSE
  ELSE IF el.throws THEN FALSE
  ELSE IF el.action = "accept" THEN acceptedContent(el)
  ELSE IF el.action = "decline" THEN FALSE
  ELSE FALSE

\* whether the guard reaches elicitInput
elicits(c, el) ==
  c.allowForceDelete /\ c.forceDeleteRequiresConfirmation /\ el.available

\* the guard without the test of allowForceDelete
validateForceDeleteOperation_NoSwitch(c, el) ==
  IF c.forceDeleteRequiresConfirmation /\ ~confirmSensitiveDeleteAction(el)
    THEN [ok |-> FALSE, kind |-> "PERMISSION_DENIED", msg |-> "user cancelled force delete"]
  ELSE [ok |-> TRUE, kind |-> "NONE", msg |-> ""]

\* the guard with one message for both rejections
validateForceDeleteOperation_OneMessage(c, el) ==
  IF ~c.allowForceDelete
    THEN [ok |-> FALSE, kind |-> "PERMISSION_DENIED", msg |-> "user cancelled force delete"]
  ELSE IF c.forceDeleteRequiresConfirmation /\ ~confirmSensitiveDeleteAction(el)
    THEN [ok |-> FALSE, kind |-> "PERMISSION_DENIED", msg |-> "user cancelled force delete"]
  ELSE [ok |-> TRUE, kind |-> "NONE", msg |-> ""]

\* ok, or PERMISSION_DENIED with the message thrown
validateForceDeleteOperation(c, el) ==
  IF ~c.allowForceDelete
    THEN [ok |-> FALSE, kind |-> "PERMISSION_DENIED", msg |-> "policy forbids force delete"]
  ELSE IF c.forceDeleteRequiresConfirmation /\ ~confirmSensitiveDeleteAction(el)
    THEN [ok |-> FALSE, kind |-> "PERMISSION_DENIED", msg |-> "user cancelled force delete"]
  ELSE [ok |-> TRUE, kind |-> "NONE", msg |-> ""]

(***************************************************************************)
(* Outcomes of an operation: the value returned or the FileSystemError     *)
(* thrown, the filesystem afterwards and the calls made, in order.         *)
(***************************************************************************)
Event(e, path) == [e |-> e, path |-> path]

Returned(f, log, out) ==
  [ok |-> TRUE, kind |-> "NONE", msg |-> "", fs |-> f, log |-> log, out |-> out]

Thrown(kind, msg, f, log) ==
  [ok |-> FALSE, kind |-> kind, msg |-> msg, fs |-> f, log |-> log, out |-> <<>>]

\* the events of validateForceDeleteOperation
guardLog(c, el) ==
  IF elicits(c, el) THEN <<Event("elicitInput", <<>>)>> ELSE <<>>

(***************************************************************************)
(* lib/file-operations.ts: moveFile, copyFile, deleteFile                  *)
(***************************************************************************)
\* moveFile / copyFile once mkdir (mk) and the transfer (tr) have been made
transferDone(mk, tr, validatedSource, validatedDestination, transfer, log3) ==
  IF mk.err # "OK" THEN Thrown("OPERATION_FAILED", mk.err, mk.fs, log3)
  ELSE IF tr.err # "OK"
    THEN Thrown("OPERATION_FAILED", tr.err, tr.fs,
                log3 \o <<Event(transfer, validatedDestination)>>)
  ELSE Returned(tr.fs, log3 \o <<Event(transfer, validatedDestination)>>,
                [source |-> validatedSource, destination |-> validatedDestination])

\* fs.rename or fs.copyFile, on the filesystem mk left, when mkdir succeeded
transferStep(mk, validatedSource, validatedDestination, transfer) ==
  IF mk.err # "OK" THEN mk
  ELSE IF transfer = "rename" THEN rename(mk.fs, validatedSource, validatedDestination)
  ELSE copyFileFs(mk.fs, validatedSource, validatedDestination)

transferMkdir(f, mk, validatedSource, validatedDestination, transfer, log3) ==
  transferDone(mk, transferStep(mk, validatedSource, validatedDestination, transfer),
               validatedSource, validatedDestination, transfer, log3)

\* moveFile / copyFile without the test of overwrite
transferValidated_NoOverwriteCheck(f, vs, vd, source, destination, overwrite, createDirs, transfer) ==
  LET log1 == <<Event("validatePath", source)>>
      log2 == log1 \o <<Event("validatePath", destination)>> IN
  IF ~vs.ok THEN Thrown(vs.kind, "source", f, log1)
  ELSE IF ~vd.ok THEN Thrown(vd.kind, "destination", f, log2)
  ELSE IF access(f, vs.path) # "OK"
    THEN Thrown("FILE_NOT_FOUND", "source does not exist", f, log2)
  ELSE IF createDirs
    THEN transferMkdir(f, mkdirRecursive(f, dirname(vd.path)), vs.path, vd.path, transfer,
                       log2 \o <<Event("mkdir", dirname(vd.path))>>)
  ELSE transferMkdir(f, FsOk(f), vs.path, vd.path, transfer, log2)

\* moveFile / copyFile once both paths went through validatePath (vs, vd)
transferValidated(f, vs, vd, source, destination, overwrite, createDirs, transfer) ==
  LET log1 == <<Event("validatePath", source)>>
      log2 == log1 \o <<Event("validatePath", destination)>> IN
  IF ~vs.ok THEN Thrown(vs.kind, "source", f, log1)
  ELSE IF ~vd.ok THEN Thrown(vd.kind, "destination", f, log2)
  ELSE IF access(f, vs.path) # "OK"
    THEN Thrown("FILE_NOT_FOUND", "source does not exist", f, log2)
  ELSE IF ~overwrite /\ access(f, vd.path) = "OK"
    THEN Thrown("FILE_ALREADY_EXISTS", "destination exists", f, log2)
  ELSE IF createDirs
    THEN transferMkdir(f, mkdirRecursive(f, dirname(vd.path)), vs.path, vd.path, transfer,
                       log2 \o <<Event("mkdir", dirname(vd.path))>>)
  ELSE transferMkdir(f, FsOk(f), vs.path, vd.path, transfer, log2)

\* the shared part of moveFile and copyFile; transfer is "rename" or "copyFile"
transferFile(f, c, source, destination, overwrite, createDirs, transfer) ==
  transferValidated(f, validatePath(f, c, source), validatePath(f, c, destination),
                    source, destination, overwrite, createDirs, transfer)

moveFile(f, c, source, destination, overwrite, createDirs) ==
  transferFile(f, c, source, destination, overwrite, createDirs, "rename")

copyFile(f, c, source, destination, overwrite, createDirs) ==
  transferFile(f, c, source, destination, overwrite, createDirs, "copyFile")

\* deleteFile once the guard (g) has answered and fs.unlink (u) has been tried
deleteUnlinked(f, g, u, validatedPath, force, log2) ==
  IF ~g.ok THEN Thrown(g.kind, g.msg, f, log2)
  ELSE IF u.err # "OK"
    THEN Thrown("OPERATION_FAILED", u.err, f, log2 \o <<Event("unlink", validatedPath)>>)
  ELSE Returned(u.fs, log2 \o <<Event("unlink", validatedPath)>>,
                [path |-> validatedPath, force |-> force])

Passed == [ok |-> TRUE, kind |-> "NONE", msg |-> ""]

\* deleteFile without the test of the read-only file
deleteExisting_NoReadOnlyTest(f, c, el, validatedPath, stats, force, log1) ==
  IF stats.kind = "dir"
    THEN Thrown("INVALID_OPERATION", "path is a directory", f, log1)
  ELSE IF ~force /\ isSensitiveFile(validatedPath)
    THEN Thrown("PERMISSION_DENIED", "sensitive file", f, log1)
  ELSE IF force
    THEN deleteUnlinked(f, validateForceDeleteOperation(c, el), unlink(f, validatedPath),
                        validatedPath, force, log1 \o guardLog(c, el))
  ELSE deleteUnlinked(f, Passed, unlink(f, validatedPath), validatedPath, force, log1)

\* deleteFile from the stat of the existing path on
deleteExisting(f, c, el, validatedPath, stats, force, log1) ==
  IF stats.kind = "dir"
    THEN Thrown("INVALID_OPERATION", "path is a directory", f, log1)
  ELSE IF ~force /\ isSensitiveFile(validatedPath)
    THEN Thrown("PERMISSION_DENIED", "sensitive file", f, log1)
  ELSE IF ~force /\ isReadOnlyFile(stats)
    THEN Thrown("PERMISSION_DENIED", "read-only file", f, log1)
  ELSE IF force
    THEN deleteUnlinked(f, validateForceDeleteOperation(c, el), unlink(f, validatedPath),
                        validatedPath, force, log1 \o guardLog(c, el))
  ELSE deleteUnlinked(f, Passed, unlink(f, validatedPath), validatedPath, force, log1)

\* deleteFile once the path went through validatePath (v)
deleteValidated(f, c, el, v, filePath, force) ==
  LET log1 == <<Event("validatePath", filePath)>> IN
  IF ~v.ok THEN Thrown(v.kind, "path", f, log1)
  ELSE IF access(f, v.path) # "OK"
    THEN Thrown("FILE_NOT_FOUND", "file does not exist", f, log1)
  ELSE deleteExisting(f, c, el, v.path, stat(f, v.path).node, force, log1)

deleteFile(f, c, el, filePath, force) ==
  deleteValidated(f, c, el, validatePath(f, c, filePath), filePath, force)

(***************************************************************************)
(* lib/file-operations.ts: the batch operations                            *)
(***************************************************************************)
\* an entry of results, and an entry of errors (the message of the error;
\* kind is "RAW" for an error that is no FileSystemError)
ResultEntry(text, path, to) == [text |-> text, path |-> path, to |-> to]
ErrorEntry(kind, text, path) == [kind |-> kind, text |-> text, path |-> path]

BatchOperationResult(results, errors, total) ==
  [results |-> results, errors |-> errors, totalCount |-> total,
   successCount |-> Len(results), errorCount |-> Len(errors)]

Acc(f, results, errors, log) ==
  [fs |-> f, results |-> results, errors |-> errors, log |-> log]

\* the push that puts the entry in front of the earlier ones
PushResult_Front(acc, f, entry, log) ==
  Acc(f, <<entry>> \o acc.results, acc.errors,
      log \o <<Event("results.push", entry.path)>>)

\* results.push(...) and errors.push(...), on the filesystem f the turn left
PushResult(acc, f, entry, log) ==
  Acc(f, Append(acc.results, entry), acc.errors,
      log \o <<Event("results.push", entry.path)>>)

PushError(acc, f, entry, log) ==
  Acc(f, acc.results, Append(acc.errors, entry),
      log \o <<Event("errors.push", entry.path)>>)

\* the events that open a turn of a loop: the item taken, its validatePath
turnLog(acc, item) == acc.log \o <<Event("item", item), Event("validatePath", item)>>

\* the push that follows moveFile / copyFile (r) in the loop
transferPushed_Both(acc, r, validatedSource, targetPath, transfer, log1) ==
  IF r.ok
    THEN PushResult(acc, r.fs, ResultEntry(transfer, validatedSource, targetPath),
                    log1 \o r.log)
  ELSE PushResult(PushError(acc, r.fs, ErrorEntry(r.kind, r.msg, validatedSource),
                            log1 \o r.log),
                  r.fs, ResultEntry(transfer, validatedSource, targetPath), <<>>)

transferPushed(acc, r, validatedSource, targetPath, transfer, log1) ==
  IF r.ok
    THEN PushResult(acc, r.fs, ResultEntry(transfer, validatedSource, targetPath),
                    log1 \o r.log)
  ELSE PushError(acc, r.fs, ErrorEntry(r.kind, r.msg, validatedSource), log1 \o r.log)

transferTarget(acc, c, validatedSource, targetPath, overwrite, transfer, log1) ==
  transferPushed(acc,
                 transferFile(acc.fs, c, validatedSource, targetPath, overwrite, TRUE, transfer),
                 validatedSource, targetPath, transfer, log1)

transferItemValidated(acc, c, v, source, validatedDestination, overwrite, transfer) ==
  IF ~v.ok
    THEN PushError(acc, acc.fs, ErrorEntry(v.kind, "path", source), turnLog(acc, source))
  ELSE transferTarget(acc, c, v.path, join(validatedDestination, basename(v.path)),
                      overwrite, transfer, turnLog(acc, source))

\* one turn of the loop of batchMoveFiles / batchCopyFiles
transferItem(acc, c, source, validatedDestination, overwrite, transfer) ==
  transferItemValidated(acc, c, validatePath(acc.fs, c, source), source,
                        validatedDestination, overwrite, transfer)

RECURSIVE transferLoop(_, _, _, _, _, _)
transferLoop(acc, c, sources, validatedDestination, overwrite, transfer) ==
  IF sources = <<>> THEN acc
  ELSE transferLoop(
         transferItem(acc, c, Head(sources), validatedDestination, overwrite, transfer),
         c, Tail(sources), validatedDestination, overwrite, transfer)

batchReturn(acc, total) ==
  Returned(acc.fs, acc.log, BatchOperationResult(acc.results, acc.errors, total))

\* batchMoveFiles once the destination directory is there or mkdir (mk) was tried
batchMoveInto(c, mk, sources, validatedDestination, overwrite, log2) ==
  IF mk.err # "OK"
    THEN Thrown("INVALID_OPERATION", "cannot create destination", mk.fs, log2)
  ELSE batchReturn(
         transferLoop(Acc(mk.fs, <<>>, <<>>, log2), c, sources, validatedDestination,
                      overwrite, "rename"),
         Len(sources))

batchMoveStat(f, c, destStats, sources, validatedDestination, overwrite, createDirs, log1) ==
  IF destStats.err = "OK" /\ destStats.node.kind # "dir"
    THEN Thrown("INVALID_OPERATION", "destination is not a directory", f, log1)
  ELSE IF destStats.err # "OK" /\ ~createDirs
    THEN Thrown("FILE_NOT_FOUND", "destination does not exist", f, log1)
  ELSE IF destStats.err # "OK"
    THEN batchMoveInto(c, mkdirRecursive(f, validatedDestination), sources,
                       validatedDestination, overwrite,
                       log1 \o <<Event("mkdir", validatedDestination)>>)
  ELSE batchMoveInto(c, FsOk(f), sources, validatedDestination, overwrite, log1)

batchMoveValidated(f, c, vd, sources, destination, overwrite, createDirs) ==
  IF ~vd.ok THEN Thrown(vd.kind, "destination", f, <<Event("validatePath", destination)>>)
  ELSE batchMoveStat(f, c, stat(f, vd.path), sources, vd.path, overwrite, createDirs,
                     <<Event("validatePath", destination)>>)

batchMoveFiles(f, c, sources, destination, overwrite, createDirs) ==
  batchMoveValidated(f, c, validatePath(f, c, destination), sources, destination,
                     overwrite, createDirs)

\* batchCopyFiles from the stat of the destination on, on the filesystem mkdir left
batchCopyStat(f, c, destStats, sources, validatedDestination, overwrite, log2) ==
  IF destStats.err = "OK" /\ destStats.node.kind # "dir"
    THEN Thrown("INVALID_OPERATION", "destination is not a directory", f, log2)
  ELSE IF destStats.err # "OK"
    THEN Thrown("FILE_NOT_FOUND", "destination does not exist", f, log2)
  ELSE batchReturn(
         transferLoop(Acc(f, <<>>, <<>>, log2), c, sources, validatedDestination,
                      overwrite, "copyFile"),
         Len(sources))

batchCopyInto(c, mk, sources, validatedDestination, overwrite, log2) ==
  IF mk.err # "OK" THEN Thrown("OPERATION_FAILED", mk.err, mk.fs, log2)
  ELSE batchCopyStat(mk.fs, c, stat(mk.fs, validatedDestination), sources,
                     validatedDestination, overwrite, log2)

batchCopyValidated(f, c, vd, sources, destination, overwrite, createDirs) ==
  IF ~vd.ok THEN Thrown(vd.kind, "destination", f, <<Event("validatePath", destination)>>)
  ELSE IF createDirs
    THEN batchCopyInto(c, mkdirRecursive(f, vd.path), sources, vd.path, overwrite,
                       <<Event("validatePath", destination), Event("mkdir", vd.path)>>)
  ELSE batchCopyInto(c, FsOk(f), sources, vd.path, overwrite,
                     <<Event("validatePath", destination)>>)

batchCopyFiles(f, c, sources, destination, overwrite, createDirs) ==
  batchCopyValidated(f, c, validatePath(f, c, destination), sources, destination,
                     overwrite, createDirs)

\* the pre-scan with the directory patterns only
preScanPushes_DirectoriesOnly(v) ==
  v.ok /\ \E name \in SensitiveDirectories : matchesDirectoryPattern(v.path, name)

\* whether the pre-scan of batchDeleteFiles pushes a path validated as v
preScanPushes(v) == v.ok /\ isSensitiveFile(v.path)

\* the pre-scan of batchDeleteFiles: the paths it finds sensitive
RECURSIVE sensitiveFiles(_, _, _)
sensitiveFiles(f, c, paths) ==
  IF paths = <<>> THEN <<>>
  ELSE (IF preScanPushes(validatePath(f, c, Head(paths))) THEN <<Head(paths)>> ELSE <<>>)
         \o sensitiveFiles(f, c, Tail(paths))

preScanLog(paths) == [i \in 1..Len(paths) |-> Event("preScan", paths[i])]

\* the push that follows fs.rmdir / fs.unlink (rm) in the loop
deleteRemoved(acc, rm, filePath, validatedPath, isDir, log2) ==
  IF rm.err # "OK"
    THEN PushError(acc, acc.fs, ErrorEntry("RAW", rm.err, filePath), log2)
  ELSE PushResult(acc, rm.fs,
                  ResultEntry(IF isDir THEN "directory deleted" ELSE "file deleted",
                              validatedPath, <<>>),
                  log2)

deleteItemExisting(acc, stats, filePath, validatedPath, force, log1) ==
  IF ~force /\ isSensitiveFile(validatedPath)
    THEN PushError(acc, acc.fs, ErrorEntry("NONE", "sensitive file", validatedPath), log1)
  ELSE IF ~force /\ isReadOnlyFile(stats)
    THEN PushError(acc, acc.fs, ErrorEntry("NONE", "read-only file", validatedPath), log1)
  ELSE IF stats.kind = "dir"
    THEN deleteRemoved(acc, rmdir(acc.fs, validatedPath), filePath, validatedPath, TRUE,
                       log1 \o <<Event("rmdir", validatedPath)>>)
  ELSE deleteRemoved(acc, unlink(acc.fs, validatedPath), filePath, validatedPath, FALSE,
                     log1 \o <<Event("unlink", validatedPath)>>)

deleteItemValidated(acc, v, filePath, force) ==
  IF ~v.ok
    THEN PushError(acc, acc.fs, ErrorEntry(v.kind, "path", filePath), turnLog(acc, filePath))
  ELSE IF access(acc.fs, v.path) # "OK"
    THEN PushError(acc, acc.fs, ErrorEntry("NONE", "file does not exist", v.path),
                   turnLog(acc, filePath))
  ELSE deleteItemExisting(acc, stat(acc.fs, v.path).node, filePath, v.path, force,
                          turnLog(acc, filePath))

\* one turn of the loop of batchDeleteFiles
deleteItem(acc, c, filePath, force) ==
  deleteItemValidated(acc, validatePath(acc.fs, c, filePath), filePath, force)

RECURSIVE deleteLoop(_, _, _, _)
\* the loop that stops at the first error
deleteLoop_StopsAtError(acc, c, paths, force) ==
  IF paths = <<>> \/ acc.errors # <<>> THEN acc
  ELSE deleteLoop(deleteItem(acc, c, Head(paths), force), c, Tail(paths), force)

deleteLoop(acc, c, paths, force) ==
  IF paths = <<>> THEN acc
  ELSE deleteLoop(deleteItem(acc, c, Head(paths), force), c, Tail(paths), force)

batchDeleteFiles(f, c, el, paths, force) ==
  LET g == IF force THEN validateForceDeleteOperation(c, el) ELSE Passed
      log1 == IF force THEN guardLog(c, el) ELSE preScanLog(paths) IN
  IF ~g.ok THEN Thrown(g.kind, g.msg, f, log1)
  ELSE IF ~force /\ sensitiveFiles(f, c, paths) # <<>>
    THEN Thrown("PERMISSION_DENIED", "sensitive files in batch", f, log1)
  ELSE batchReturn(deleteLoop(Acc(f, <<>>, <<>>, log1), c, paths, force), Len(paths))

(***************************************************************************)
(* SpecOps: one call of a file operation on a tree with regular, read-only *)
(* and sensitive files, directories and a link                             *)
(***************************************************************************)
MaxBatch == 2

FileA == <<"/", "w", "/", "a">>
FileB == <<"/", "w", "/", "b">>
FileR == <<"/", "w", "/", "r">>
FileK == <<"/", "w", "/", "k", ".", "s", "h">>
DirD == <<"/", "w", "/", "d">>
FileDA == <<"/", "w", "/", "d", "/", "a">>
DirE == <<"/", "w", "/", "e">>
LinkL == <<"/", "w", "/", "l">>
NewN == <<"/", "w", "/", "n">>
Outside == <<"/", "x">>
OutsideS == <<"/", "x", "/", "s">>
OutsideK == <<"/", "x", "/", "k", ".", "s", "h">>

OpsTree ==
  (Root :> Dir) @@ (W :> Dir) @@ (FileA :> File(1)) @@ (FileB :> File(2))
  @@ (FileR :> ReadOnlyFile(3)) @@ (FileK :> File(4))
  @@ (DirD :> Dir) @@ (FileDA :> File(5)) @@ (DirE :> Dir)
  @@ (LinkL :> Link(OutsideS))
  @@ (Outside :> Dir) @@ (OutsideS :> File(9))

DeletePaths == {FileA, FileR, FileK, DirD, DirE, LinkL, NewN, OutsideS, OutsideK, <<>>}
SourcePaths == {FileA, FileB, FileDA, DirE, NewN, OutsideS}
DestinationPaths == {DirE, DirD, NewN, FileB, <<"/", "w", "/", "n", "/", "n">>, Outside}

Lists(S) == UNION {[1..k -> S] : k \in 0..MaxBatch}

\* the channel as the force-delete calls of a batch find it
BatchEnvs ==
  {Unavailable, Throwing, Answer("accept", "true", "true"),
   Answer("accept", "true", "absent"), Answer("decline", "true", "true")}

Call(op, paths, dest, overwrite, createDirs, force, el) ==
  [op |-> op, paths |-> paths, dest |-> dest, overwrite |-> overwrite,
   createDirs |-> createDirs, force |-> force, el |-> el]

DeleteCalls ==
  {Call("deleteFile", <<p>>, <<>>, FALSE, TRUE, FALSE, Unavailable) : p \in DeletePaths}
  \cup {Call("deleteFile", <<p>>, <<>>, FALSE, TRUE, TRUE, el) :
          p \in DeletePaths, el \in ElicitEnvs}

BatchDeleteCalls ==
  {Call("batchDeleteFiles", ps, <<>>, FALSE, TRUE, FALSE, Unavailable) :
     ps \in Lists(DeletePaths)}
  \cup {Call("batchDeleteFiles", ps, <<>>, FALSE, TRUE, TRUE, el) :
          ps \in Lists(DeletePaths), el \in BatchEnvs}

TransferCalls(op) ==
  {Call(op, <<s>>, d, o, m, FALSE, Unavailable) :
     s \in SourcePaths, d \in DestinationPaths \cup {FileA}, o \in BOOLEAN, m \in BOOLEAN}

BatchTransferCalls(op) ==
  {Call(op, ss, d, o, m, FALSE, Unavailable) :
     ss \in Lists(SourcePaths), d \in DestinationPaths, o \in BOOLEAN, m \in BOOLEAN}

OpsCalls ==
  DeleteCalls \cup BatchDeleteCalls
  \cup TransferCalls("moveFile") \cup TransferCalls("copyFile")
  \cup BatchTransferCalls("batchMoveFiles") \cup BatchTransferCalls("batchCopyFiles")

Production == SecurityConfig(TRUE, TRUE, TRUE, <<W>>)

\* the two force-delete switches matter to the force calls only
Policies(call) ==
  IF call.force
    THEN {SecurityConfig(TRUE, a, n, <<W>>) : a \in BOOLEAN, n \in BOOLEAN}
  ELSE {Production}

InitOps ==
  /\ fs = OpsTree
  /\ \E call \in OpsCalls : queue = <<call>> /\ cfg \in Policies(call)
  /\ last = NoCall
  /\ prev = NoCall
  /\ run = Idle
  /\ seen = NoRead

\* the call at the head of the queue is made and gives outcome res
Made(op, res) ==
  /\ last' = [op |-> op, call |-> Head(queue), pre |-> fs, res |-> res]
  /\ prev' = last
  /\ fs' = res.fs
  /\ queue' = Tail(queue)
  /\ UNCHANGED <<cfg, run, seen>>

Next(op) == queue # <<>> /\ Head(queue).op = op

DeleteFileCall ==
  /\ Next("deleteFile")
  /\ LET q == Head(queue) IN Made("deleteFile", deleteFile(fs, cfg, q.el, q.paths[1], q.force))

BatchDeleteCall ==
  /\ Next("batchDeleteFiles")
  /\ LET q == Head(queue) IN
     Made("batchDeleteFiles", batchDeleteFiles(fs, cfg, q.el, q.paths, q.force))

MoveFileCall ==
  /\ Next("moveFile")
  /\ LET q == Head(queue) IN
     Made("moveFile", moveFile(fs, cfg, q.paths[1], q.dest, q.overwrite, q.createDirs))

CopyFileCall ==
  /\ Next("copyFile")
  /\ LET q == Head(queue) IN
     Made("copyFile", copyFile(fs, cfg, q.paths[1], q.dest, q.overwrite, q.createDirs))

BatchMoveCall ==
  /\ Next("batchMoveFiles")
  /\ LET q == Head(queue) IN
     Made("batchMoveFiles",
          batchMoveFiles(fs, cfg, q.paths, q.dest, q.overwrite, q.createDirs))

BatchCopyCall ==
  /\ Next("batchCopyFiles")
  /\ LET q == Head(queue) IN
     Made("batchCopyFiles",
          batchCopyFiles(fs, cfg, q.paths, q.dest, q.overwrite, q.createDirs))

NextOps ==
  \/ DeleteFileCall
  \/ BatchDeleteCall
  \/ MoveFileCall
  \/ CopyFileCall
  \/ BatchMoveCall
  \/ BatchCopyCall

SpecOps == InitOps /\ [][NextOps]_vars

(***************************************************************************)
(* SpecTwice: two calls of copyFile / moveFile, one after the other        *)
(***************************************************************************)
TwiceCalls ==
  {Call(op, <<s>>, d, o, m, FALSE, Unavailable) :
     op \in {"copyFile", "moveFile"}, s \in {FileA, FileB, LinkL, NewN},
     d \in {FileB, NewN, DirE, <<"/", "w", "/", "n", "/", "n">>},
     o \in BOOLEAN, m \in BOOLEAN}

InitTwice ==
  /\ fs = OpsTree
  /\ cfg = Production
  /\ queue \in {<<first, second>> : first \in TwiceCalls, second \in TwiceCalls}
  /\ last = NoCall
  /\ prev = NoCall
  /\ run = Idle
  /\ seen = NoRead

NextTwice ==
  \/ CopyFileCall
  \/ MoveFileCall

SpecTwice == InitTwice /\ [][NextTwice]_vars

(***************************************************************************)
(* exiftool-server: the confirmation gate and the tools that write         *)
(* metadata.  A file's data is its tags: a function from the names of the  *)
(* tags it holds to their values.                                          *)
(***************************************************************************)
Tags == {"Artist", "Title"}
TagValues == {"v", "w"}
Null == "null"

NoTags == [t \in {} |-> Null]

\* validateFilePath: path.resolve and existsSync
validateFilePath(f, filePath) ==
  IF access(f, resolve(filePath)) # "OK"
    THEN [ok |-> FALSE, path |-> resolve(filePath)]
  ELSE [ok |-> TRUE, path |-> resolve(filePath)]

\* the gate that lets every call through
confirmSensitiveAction_AlwaysTrue(el) == TRUE

\* typeof elicit !== "function" -> true; a throw -> true;
\* result.action === "accept" && !!result.content?.confirm
confirmSensitiveAction(el) ==
  IF ~el.available THEN TRUE
  ELSE IF el.throws THEN TRUE
  ELSE el.action = "accept" /\ el.hasContent /\ el.confirm \in {"true", "truthy"}

\* exiftool.read(path): the tags, when the path is a file exiftool can read
exiftoolRead(f, path, readFails) ==
  LET r == stat(f, path) IN
  IF readFails \/ r.err # "OK" \/ r.node.kind # "file" THEN [err |-> "ERROR", tags |-> NoTags]
  ELSE [err |-> "OK", tags |-> r.node.data]

\* the tags after a write: a null value removes the tag, another sets it
written(old, metadata) ==
  [t \in (DOMAIN old \cup DOMAIN metadata) \ {k \in DOMAIN metadata : metadata[k] = Null} |->
     IF t \in DOMAIN metadata THEN metadata[t] ELSE old[t]]

\* exiftool.write(path, metadata)
exiftoolWrite(f, path, metadata) ==
  LET r == stat(f, path) IN
  IF r.err # "OK" THEN FsErr(r.err, f)
  ELSE IF r.node.kind # "file" THEN FsErr("ERROR", f)
  ELSE IF ~r.node.writable THEN FsErr("EACCES", f)
  ELSE FsOk(Put(f, r.path, [r.node EXCEPT !.data = written(r.node.data, metadata)]))

\* what a tool returns, the filesystem afterwards and the calls made
ToolResult(isError, text, f, log) ==
  [isError |-> isError, text |-> text, fs |-> f, log |-> log]

errorResult(message, f, log) == ToolResult(TRUE, message, f, log)

gateLog(el) == IF el.available THEN <<Event("elicitInput", <<>>)>> ELSE <<>>

\* the tool from exiftool.write (w) on
metadataWritten(w, validatedPath, done, log) ==
  IF w.err # "OK" THEN errorResult(w.err, w.fs, log \o <<Event("exiftool.write", validatedPath)>>)
  ELSE ToolResult(FALSE, done, w.fs, log \o <<Event("exiftool.write", validatedPath)>>)

\* the keys of metadata that current holds already
conflicting(metadata, current) == DOMAIN metadata \cap DOMAIN current.tags

writeMetadataConfirmed(f, el, validatedPath, metadata, shouldOverwrite, current) ==
  IF ~confirmSensitiveAction(el) THEN ToolResult(FALSE, "cancelled", f, gateLog(el))
  ELSE IF ~shouldOverwrite /\ current.err = "OK" /\ conflicting(metadata, current) # {}
    THEN errorResult("tags exist, overwrite not enabled", f, gateLog(el))
  ELSE metadataWritten(exiftoolWrite(f, validatedPath, metadata), validatedPath,
                       "metadata written", gateLog(el))

\* the handler of write-metadata
writeMetadata(f, el, filePath, metadata, overwrite, readFails) ==
  IF ~validateFilePath(f, filePath).ok THEN errorResult("file does not exist", f, <<>>)
  ELSE writeMetadataConfirmed(f, el, validateFilePath(f, filePath).path, metadata, overwrite,
                              exiftoolRead(f, validateFilePath(f, filePath).path, readFails))

\* tags.forEach((tag) => { deleteMetadata[tag] = null })
nulled(tags) == [t \in {tags[i] : i \in 1..Len(tags)} |-> Null]

\* the handler of delete-metadata
deleteMetadata(f, el, filePath, tags) ==
  IF ~validateFilePath(f, filePath).ok THEN errorResult("file does not exist", f, <<>>)
  ELSE IF ~confirmSensitiveAction(el) THEN ToolResult(FALSE, "cancelled", f, gateLog(el))
  ELSE metadataWritten(exiftoolWrite(f, validateFilePath(f, filePath).path, nulled(tags)),
                       validateFilePath(f, filePath).path, "tags deleted", gateLog(el))

(***************************************************************************)
(* SpecExif: one call of write-metadata or delete-metadata                 *)
(***************************************************************************)
Photo == <<"/", "w", "/", "p">>

ExifTree ==
  (Root :> Dir) @@ (W :> Dir) @@ (Photo :> File([t \in {"Artist"} |-> "v"]))
  @@ (<<"/", "w", "/", "q">> :> File(NoTags))

ExifPaths == {Photo, <<"q">>, NewN, W}

Metadata == UNION {[S -> TagValues \cup {Null}] : S \in SUBSET Tags}

TagLists == {<<>>} \cup {<<t>> : t \in Tags} \cup {<<t, u>> : t \in Tags, u \in Tags}

ExifCall(op, filePath, metadata, tags, overwrite, readFails, el) ==
  [op |-> op, filePath |-> filePath, metadata |-> metadata, tags |-> tags,
   overwrite |-> overwrite, readFails |-> readFails, el |-> el]

ExifCalls ==
  {ExifCall("write-metadata", p, m, <<>>, o, r, el) :
     p \in ExifPaths, m \in Metadata, o \in BOOLEAN, r \in BOOLEAN, el \in ElicitEnvs}
  \cup {ExifCall("delete-metadata", p, NoTags, ts, FALSE, FALSE, el) :
          p \in ExifPaths, ts \in TagLists, el \in ElicitEnvs}

InitExif ==
  /\ fs = ExifTree
  /\ cfg = Production
  /\ queue \in {<<call>> : call \in ExifCalls}
  /\ last = NoCall
  /\ prev = NoCall
  /\ run = Idle
  /\ seen = NoRead

WriteMetadataCall ==
  /\ Next("write-metadata")
  /\ LET q == Head(queue) IN
     Made("write-metadata",
          writeMetadata(fs, q.el, q.filePath, q.metadata, q.overwrite, q.readFails))

DeleteMetadataCall ==
  /\ Next("delete-metadata")
  /\ LET q == Head(queue) IN
     Made("delete-metadata", deleteMetadata(fs, q.el, q.filePath, q.tags))

NextExif ==
  \/ WriteMetadataCall
  \/ DeleteMetadataCall

SpecExif == InitExif /\ [][NextExif]_vars

(***************************************************************************)
(* The force-delete guard and the deletes behind it                        *)
(***************************************************************************)
DeleteOps == {"deleteFile", "batchDeleteFiles"}

ForceCall == last.op \in DeleteOps /\ last.call.force

\* the answer is an accept whose confirm and acknowledged are both exactly true
ExplicitAccept(el) ==
  /\ el.available /\ ~el.throws /\ el.action = "accept"
  /\ el.hasContent /\ el.confirm = "true" /\ el.acknowledged = "true"

At(log, names) == {i \in 1..Len(log) : log[i].e \in names}

Removals(log) == At(log, {"unlink", "rmdir"})

\* C4: the confirmation guard returns true exactly when the answer is an
\* accept with confirm and acknowledged both exactly true; in every other
\* case (channel unavailable, a throw, decline, cancel, a field missing or
\* not true) it returns false, and a force delete that needs confirmation is
\* rejected with PERMISSION_DENIED: nothing is removed.
C4_GuardFailsClosed ==
  ForceCall =>
    /\ confirmSensitiveDeleteAction(last.call.el) <=> ExplicitAccept(last.call.el)
    /\ (/\ cfg.allowForceDelete /\ cfg.forceDeleteRequiresConfirmation
        /\ ~ExplicitAccept(last.call.el))
         => /\ ~last.res.ok
            /\ Removals(last.res.log) = {}
            /\ fs = last.pre
            /\ (last.op = "batchDeleteFiles" \/ At(last.res.log, {"elicitInput"}) # {})
                 => last.res.kind = "PERMISSION_DENIED"

\* a force delete of an existing file, answered by an accept whose confirm
\* is truthy but not true, is refused as cancelled by the user
C4_Witness ==
  /\ ForceCall /\ last.op = "deleteFile"
  /\ cfg.allowForceDelete /\ cfg.forceDeleteRequiresConfirmation
  /\ last.call.el.action = "accept" /\ last.call.el.confirm = "truthy"
  /\ last.call.el.acknowledged = "true"
  /\ last.call.paths[1] \in DOMAIN last.pre
  /\ last.res.kind = "PERMISSION_DENIED"
  /\ last.res.msg = "user cancelled force delete"

GuardRejects ==
  \/ ~cfg.allowForceDelete
  \/ cfg.forceDeleteRequiresConfirmation /\ ~ExplicitAccept(last.call.el)

\* C5: in force mode nothing is removed unless allowForceDelete is true and,
\* when forceDeleteRequiresConfirmation is true, the guard was asked earlier
\* in the same call and confirmed; when the guard rejects, the call fails
\* and the filesystem is as it was.
C5_ForceDeleteBehindGuard ==
  ForceCall =>
    /\ \A i \in Removals(last.res.log) :
         /\ cfg.allowForceDelete
         /\ cfg.forceDeleteRequiresConfirmation
              => /\ \E j \in At(last.res.log, {"elicitInput"}) : j < i
                 /\ ExplicitAccept(last.call.el)
    /\ fs # last.pre => Removals(last.res.log) # {}
    /\ GuardRejects => (~last.res.ok /\ fs = last.pre)

\* a confirmed force batch removes a directory
C5_Witness ==
  /\ ForceCall /\ last.op = "batchDeleteFiles"
  /\ cfg.forceDeleteRequiresConfirmation
  /\ At(last.res.log, {"rmdir"}) # {}
  /\ DirE \notin DOMAIN fs

(***************************************************************************)
(* The gate of the exiftool-server                                         *)
(***************************************************************************)
ExifCallMade == last.op \in {"write-metadata", "delete-metadata"}

Wrote == At(last.res.log, {"exiftool.write"}) # {}

\* C6 as stated: the write is made only after an explicitly accepted
\* confirmation, and is rejected when elicitation is unavailable or fails.
C6_MetadataGateFailsClosed ==
  ExifCallMade =>
    /\ Wrote => /\ last.call.el.available /\ ~last.call.el.throws
                /\ last.call.el.action = "accept"
    /\ (~last.call.el.available \/ last.call.el.throws) => (~Wrote /\ fs = last.pre)

\* the answers the gate of the exiftool-server lets through
GateOpen(el) ==
  \/ ~el.available
  \/ el.throws
  \/ el.action = "accept" /\ el.hasContent /\ el.confirm \in {"true", "truthy"}

\* C6: write-metadata and delete-metadata write only when the gate lets the
\* call through, after asking when the channel is there: on an accept whose
\* confirm is truthy, and also when elicitation is unavailable or throws;
\* a decline, a cancel or a confirm that is not truthy cancels the call,
\* which writes nothing.
C6_MetadataGate ==
  ExifCallMade =>
    /\ Wrote => GateOpen(last.call.el)
    /\ \A i \in At(last.res.log, {"exiftool.write"}) :
         last.call.el.available => \E j \in At(last.res.log, {"elicitInput"}) : j < i
    /\ ~GateOpen(last.call.el)
         => /\ ~Wrote /\ fs = last.pre
            /\ access(last.pre, resolve(last.call.filePath)) = "OK"
                 => (~last.res.isError /\ last.res.text = "cancelled")

\* without an elicitation channel the tags are written
C6_Witness ==
  /\ ExifCallMade /\ ~last.call.el.available
  /\ Wrote /\ fs # last.pre /\ ~last.res.isError

(***************************************************************************)
(* The batch operations                                                    *)
(***************************************************************************)
BatchOps == {"batchMoveFiles", "batchCopyFiles", "batchDeleteFiles"}

BatchReturned == last.op \in BatchOps /\ last.res.ok

\* C7: every BatchOperationResult has successCount + errorCount = totalCount
\* = the number of inputs, len(results) = successCount and len(errors) =
\* errorCount, the empty list included.
C7_BatchCounts ==
  BatchReturned =>
    /\ last.res.out.successCount + last.res.out.errorCount = last.res.out.totalCount
    /\ last.res.out.totalCount = Len(last.call.paths)
    /\ Len(last.res.out.results) = last.res.out.successCount
    /\ Len(last.res.out.errors) = last.res.out.errorCount

\* a batch of a move or a copy with a success and a failure
C7_Witness ==
  /\ BatchReturned /\ last.op # "batchDeleteFiles"
  /\ last.res.out.successCount > 0 /\ last.res.out.errorCount > 0

\* the turn of the loop that position i of the log belongs to, 0 before it
TurnOf(log, i) == Cardinality({j \in At(log, {"item"}) : j <= i})

PushesOf(log, k) ==
  {i \in At(log, {"results.push", "errors.push"}) : TurnOf(log, i) = k}

\* C8: once the loop has begun the call does not throw; every item is
\* taken, in order, whatever became of the items before it, and each turn
\* pushes exactly one entry, to results or to errors.
C8_ItemErrorsCaptured ==
  last.op \in BatchOps =>
    /\ At(last.res.log, {"item"}) # {} => last.res.ok
    /\ last.res.ok =>
         /\ Cardinality(At(last.res.log, {"item"})) = Len(last.call.paths)
         /\ \A i \in At(last.res.log, {"item"}) :
              last.res.log[i].path = last.call.paths[TurnOf(last.res.log, i)]
         /\ PushesOf(last.res.log, 0) = {}
         /\ \A k \in 1..Len(last.call.paths) :
              Cardinality(PushesOf(last.res.log, k)) = 1

\* rmdir fails on the first item with an error that is no FileSystemError,
\* and the second item is deleted
C8_Witness ==
  /\ last.op = "batchDeleteFiles" /\ last.res.ok
  /\ Len(last.call.paths) = 2
  /\ Len(last.res.out.errors) = 1 /\ last.res.out.errors[1].kind = "RAW"
  /\ \A i \in PushesOf(last.res.log, 1) : last.res.log[i].e = "errors.push"
  /\ \A i \in PushesOf(last.res.log, 2) : last.res.log[i].e = "results.push"
  /\ fs # last.pre

PlainBatchDelete == last.op = "batchDeleteFiles" /\ ~last.call.force

Rejected ==
  /\ ~last.res.ok /\ last.res.kind = "PERMISSION_DENIED"
  /\ Removals(last.res.log) = {}
  /\ fs = last.pre

\* C9 as stated: any item that is a sensitive file makes the batch fail.
C9_SensitiveItemRejectsBatch ==
  (/\ PlainBatchDelete
   /\ \E i \in 1..Len(last.call.paths) : isSensitiveFile(last.call.paths[i]))
    => Rejected

\* item i goes through validatePath and the path it gives is sensitive
SensitiveAndValid(i) ==
  /\ validatePath(last.pre, cfg, last.call.paths[i]).ok
  /\ isSensitiveFile(validatePath(last.pre, cfg, last.call.paths[i]).path)

\* C9: batchDeleteFiles with force = false rejects the whole batch with
\* PERMISSION_DENIED, before any deletion, if some item passes validatePath
\* and its validated path is a sensitive file; an item that validatePath
\* refuses is left out of the pre-scan.
C9_ValidSensitiveItemRejectsBatch ==
  (PlainBatchDelete /\ \E i \in 1..Len(last.call.paths) : SensitiveAndValid(i))
    => Rejected

\* a batch of a plain file and a sensitive one is refused
C9_Witness ==
  /\ PlainBatchDelete /\ Len(last.call.paths) = 2
  /\ ~SensitiveAndValid(1) /\ SensitiveAndValid(2)
  /\ last.call.paths[1] \in DOMAIN last.pre
  /\ Rejected

(***************************************************************************)
(* Overwrite protection of copyFile and moveFile                           *)
(***************************************************************************)
Transferred == last.op \in {"copyFile", "moveFile"}

\* the call before and the last call are the same successful-then-repeated copy
CopiedTwice ==
  /\ prev.op = "copyFile" /\ prev.res.ok
  /\ last.op = "copyFile" /\ last.call = prev.call

\* C10: copyFile and moveFile with overwrite = false onto a destination
\* that exists fail and change nothing, with FILE_ALREADY_EXISTS when the
\* source is there; a copy made twice fails the second time and the
\* destination holds what the first call wrote.
C10_NoOverwrite ==
  /\ (/\ Transferred /\ ~last.call.overwrite
      /\ access(last.pre, last.call.dest) = "OK")
       => /\ ~last.res.ok
          /\ fs = last.pre
          /\ (/\ validatePath(last.pre, cfg, last.call.paths[1]).ok
              /\ validatePath(last.pre, cfg, last.call.dest).ok
              /\ access(last.pre, last.call.paths[1]) = "OK")
               => last.res.kind = "FILE_ALREADY_EXISTS"
  /\ (CopiedTwice /\ ~last.call.overwrite)
       => /\ ~last.res.ok /\ last.res.kind = "FILE_ALREADY_EXISTS"
          /\ fs = last.pre
          /\ stat(fs, last.call.dest).node.data
               = stat(prev.pre, last.call.paths[1]).node.data

\* the second of two equal copies is refused
C10_Witness ==
  /\ CopiedTwice /\ ~last.call.overwrite
  /\ last.res.kind = "FILE_ALREADY_EXISTS"
  /\ stat(fs, last.call.dest).err = "OK"
  /\ stat(prev.pre, last.call.dest).err # "OK"

(***************************************************************************)
(* lib/file-operations.ts: atomicWriteFile, step by step.  A file's data   *)
(* is here the sequence of the chunks written to it; fs.writeFile opens    *)
(* (creates or truncates) the file and then writes chunk after chunk, and  *)
(* other clients may read between any two steps.                           *)
(***************************************************************************)
\* the temp file is the destination itself
generateSecureTempFileName_InPlace(originalPath) == originalPath

\* `${originalPath}.${timestamp}.${random}.tmp`
generateSecureTempFileName(originalPath) == originalPath \o <<".", "t">>

\* open(p, "w"): the file created or truncated, and its real path
openTruncate(f, p) ==
  LET l == Lookup(f, p, TRUE) IN
  IF l.err = "OK" THEN
       IF f[l.path].kind = "dir" THEN [err |-> "EISDIR", fs |-> f, path |-> l.path]
       ELSE IF ~f[l.path].writable THEN [err |-> "EACCES", fs |-> f, path |-> l.path]
       ELSE [err |-> "OK", fs |-> Put(f, l.path, File(<<>>)), path |-> l.path]
  ELSE IF l.err = "ENOENT" /\ l.final
    THEN [err |-> "OK", fs |-> Put(f, l.path, File(<<>>)), path |-> l.path]
  ELSE [err |-> l.err, fs |-> f, path |-> l.path]

\* write(fd, chunk)
writeChunk(f, fd, chunk) ==
  IF fd \in DOMAIN f /\ f[fd].kind = "file"
    THEN Put(f, fd, [f[fd] EXCEPT !.data = Append(f[fd].data, chunk)])
  ELSE f

\* the catch block leaves the temp file as it is
cleanupTemp_Skip(f, tempPath) == f

\* try { await fs.unlink(tempPath) } catch { }
cleanupTemp(f, tempPath) == unlink(f, tempPath).fs

(***************************************************************************)
(* SpecWrite: one atomicWriteFile, with faults in writeFile and rename,    *)
(* and another client reading                                              *)
(***************************************************************************)
OldContent == <<"a", "b">>
WriteTree ==
  (Root :> Dir) @@ (W :> Dir) @@ (FileA :> File(OldContent))
  @@ (FileR :> ReadOnlyFile(<<"r">>)) @@ (DirE :> Dir)
  @@ (LinkL :> Link(<<"a">>))

WritePaths == {FileA, <<"a">>, FileR, NewN, DirE, LinkL, <<"/", "w", "/", "n", "/", "n">>}
Contents == {<<>>, <<"c">>, <<"c", "d">>}
ReadPaths == {FileA, NewN, LinkL, FileR}

InitWrite ==
  /\ fs = WriteTree
  /\ cfg = Production
  /\ queue \in {<<[op |-> "atomicWriteFile", filePath |-> p, content |-> c]>> :
                  p \in WritePaths, c \in Contents}
  /\ last = NoCall
  /\ prev = NoCall
  /\ run = Idle
  /\ seen = NoRead

\* const tempPath = generateSecureTempFileName(filePath)
AtomicWriteBegin ==
  /\ run.pc = "idle" /\ queue # <<>> /\ Head(queue).op = "atomicWriteFile"
  /\ run' = [pc |-> "writeFile", filePath |-> Head(queue).filePath,
             content |-> Head(queue).content,
             tempPath |-> generateSecureTempFileName(Head(queue).filePath),
             pre |-> fs, fd |-> <<>>, written |-> 0, error |-> "NONE", kind |-> "NONE"]
  /\ queue' = Tail(queue)
  /\ UNCHANGED <<fs, cfg, last, prev, seen>>

\* fs.writeFile(tempPath, content): the open
WriteFileOpen ==
  /\ run.pc = "writeFile"
  /\ LET o == openTruncate(fs, run.tempPath) IN
     /\ fs' = o.fs
     /\ run' = IF o.err = "OK" THEN [run EXCEPT !.pc = "writing", !.fd = o.path]
               ELSE [run EXCEPT !.pc = "catch", !.error = o.err]
  /\ UNCHANGED <<cfg, queue, last, prev, seen>>

\* fs.writeFile(tempPath, content): the next chunk
WriteFileChunk ==
  /\ run.pc = "writing" /\ run.written < Len(run.content)
  /\ fs' = writeChunk(fs, run.fd, run.content[run.written + 1])
  /\ run' = [run EXCEPT !.written = run.written + 1]
  /\ UNCHANGED <<cfg, queue, last, prev, seen>>

\* fs.writeFile fails (disk full, I/O error) before or between the chunks
WriteFileFault ==
  /\ run.pc \in {"writeFile", "writing"}
  /\ run' = [run EXCEPT !.pc = "catch", !.error = "EIO"]
  /\ UNCHANGED <<fs, cfg, queue, last, prev, seen>>

\* fs.rename(tempPath, filePath)
RenameTemp ==
  /\ run.pc = "writing" /\ run.written = Len(run.content)
  /\ LET r == rename(fs, run.tempPath, run.filePath) IN
     /\ fs' = r.fs
     /\ run' = IF r.err = "OK" THEN [run EXCEPT !.pc = "returned"]
               ELSE [run EXCEPT !.pc = "catch", !.error = r.err]
  /\ UNCHANGED <<cfg, queue, last, prev, seen>>

\* fs.rename fails for a reason outside the tree (EXDEV, EPERM, I/O error)
RenameFault ==
  /\ run.pc = "writing" /\ run.written = Len(run.content)
  /\ run' = [run EXCEPT !.pc = "catch", !.error = "EIO"]
  /\ UNCHANGED <<fs, cfg, queue, last, prev, seen>>

\* the catch block: the cleanup and the FileSystemError thrown
CatchAndThrow ==
  /\ run.pc = "catch"
  /\ fs' = cleanupTemp(fs, run.tempPath)
  /\ run' = [run EXCEPT !.pc = "thrown", !.kind = "OPERATION_FAILED"]
  /\ UNCHANGED <<cfg, queue, last, prev, seen>>

\* another client reads a file (fs.readFile)
ReadFile ==
  /\ run.pc # "idle"
  /\ \E p \in ReadPaths :
       LET r == stat(fs, p) IN
       seen' = [op |-> "readFile", path |-> p, err |-> r.err,
                pc |-> run.pc, written |-> run.written,
                data |-> IF r.err = "OK" /\ r.node.kind = "file" THEN r.node.data
                         ELSE <<>>]
  /\ UNCHANGED <<fs, cfg, queue, last, prev, run>>

NextWrite ==
  \/ AtomicWriteBegin
  \/ WriteFileOpen
  \/ WriteFileChunk
  \/ WriteFileFault
  \/ RenameTemp
  \/ RenameFault
  \/ CatchAndThrow
  \/ ReadFile

SpecWrite == InitWrite /\ [][NextWrite]_vars

(***************************************************************************)
(* atomicWriteFile: what a failure and a reader may find                   *)
(***************************************************************************)
\* the entry at p is in f what it is in g: absent in both, or the same node
SameEntry(f, g, p) ==
  /\ lstat(f, p).err = lstat(g, p).err
  /\ lstat(f, p).err = "OK"
       => /\ lstat(f, p).node.kind = lstat(g, p).node.kind
          /\ lstat(f, p).node.target = lstat(g, p).node.target
          /\ lstat(f, p).node.kind = "file"
               => lstat(f, p).node.data = lstat(g, p).node.data

Absent(f, p) == lstat(f, p).err # "OK"

ReadOfDestination ==
  /\ seen.op = "readFile" /\ run.pc # "idle"
  /\ resolve(seen.path) = resolve(run.filePath)

\* C12: a read of the path made while atomicWriteFile runs finds what was
\* there before the call (the complete previous content, or nothing) or the
\* complete new content.
C12_ReadersSeeWholeFiles ==
  ReadOfDestination =>
    \/ /\ seen.err = stat(run.pre, run.filePath).err
       /\ seen.err = "OK" /\ stat(run.pre, run.filePath).node.kind = "file"
            => seen.data = stat(run.pre, run.filePath).node.data
    \/ seen.err = "OK" /\ seen.data = run.content

\* a read between the two chunks finds the previous content
C12_Witness ==
  /\ ReadOfDestination /\ seen.path = FileA
  /\ seen.pc = "writing" /\ seen.written = 1 /\ Len(run.content) = 2
  /\ seen.data = OldContent

(***************************************************************************)
(* node:fs calls used by lib/utils.ts, each giving its errno and the       *)
(* filesystem afterwards                                                   *)
(***************************************************************************)
\* fs.link(existingPath, newPath): the last component of neither path is
\* followed, the new name gets the node of the existing one
link(f, existingPath, newPath) ==
  LET s == Lookup(f, existingPath, FALSE)
      n == Entry(f, newPath) IN
  IF s.err # "OK" THEN FsErr(s.err, f)
  ELSE IF f[s.path].kind = "dir" THEN FsErr("EPERM", f)
  ELSE IF n.err # "OK" THEN FsErr(n.err, f)
  ELSE IF n.exists THEN FsErr("EEXIST", f)
  ELSE FsOk(Put(f, n.path, f[s.path]))

\* fs.symlink(target, path)
symlink(f, target, path) ==
  LET n == Entry(f, path) IN
  IF n.err # "OK" THEN FsErr(n.err, f)
  ELSE IF n.exists THEN FsErr("EEXIST", f)
  ELSE FsOk(Put(f, n.path, Link(target)))

\* fs.readlink(path): the errno and the target
readlink(f, path) ==
  LET l == Lookup(f, path, FALSE) IN
  IF l.err # "OK" THEN [err |-> l.err, target |-> <<>>]
  ELSE IF f[l.path].kind # "link" THEN [err |-> "EINVAL", target |-> <<>>]
  ELSE [err |-> "OK", target |-> f[l.path].target]

\* the owner-write bit 0o200 of a numeric mode
OwnerWrite(numericMode) == (numericMode \div 128) % 2 = 1

\* fs.chmod(path, mode)
chmod(f, path, numericMode) ==
  LET l == Lookup(f, path, TRUE) IN
  IF l.err # "OK" THEN FsErr(l.err, f)
  ELSE FsOk(Put(f, l.path, [f[l.path] EXCEPT !.writable = OwnerWrite(numericMode)]))

(***************************************************************************)
(* parseInt(mode, 8): leading white space is skipped, one sign is taken,   *)
(* then the longest run of octal digits; NaN when that run is empty.       *)
(***************************************************************************)
OctalDigits == <<"0", "1", "2", "3", "4", "5", "6", "7">>

IsOctalDigit(ch) == \E i \in 1..Len(OctalDigits) : OctalDigits[i] = ch

DigitValue(ch) == (CHOOSE i \in 1..Len(OctalDigits) : OctalDigits[i] = ch) - 1

RECURSIVE StripLeadingSpace(_)
StripLeadingSpace(s) ==
  IF s # <<>> /\ Head(s) = " " THEN StripLeadingSpace(Tail(s)) ELSE s

\* the value of the longest prefix of octal digits of s, from acc
RECURSIVE OctalPrefix(_, _, _)
OctalPrefix(s, acc, taken) ==
  IF s # <<>> /\ IsOctalDigit(Head(s))
    THEN OctalPrefix(Tail(s), acc * 8 + DigitValue(Head(s)), taken + 1)
  ELSE [value |-> acc, digits |-> taken]

\* nan, or the sign (neg) and the magnitude (value) of the number
parseInt8(str) ==
  LET s == StripLeadingSpace(str)
      neg == s # <<>> /\ Head(s) = "-"
      rest == IF s # <<>> /\ (Head(s) = "-" \/ Head(s) = "+") THEN Tail(s) ELSE s
      prefix == OctalPrefix(rest, 0, 0) IN
  [nan |-> prefix.digits = 0, neg |-> neg, value |-> prefix.value]

\* the pattern /^[0-7]{3}$/ of ChangePermissionsArgsSchema
ChangePermissionsArgsSchema(mode) ==
  Len(mode) = 3 /\ \A i \in 1..3 : IsOctalDigit(mode[i])

(***************************************************************************)
(* lib/utils.ts: renameFileOrDirectory, createHardLink, createSoftLink,    *)
(* readSoftLink, changeFilePermissions, getFileInfoDescription; and        *)
(* lib/file-operations.ts: getFileInfo.  An error that is no               *)
(* FileSystemError is thrown with kind "RAW" and its errno as message.     *)
(***************************************************************************)
\* the last call r of an operation without a try block around it
unwrapped(r, log, out) ==
  IF r.err # "OK" THEN Thrown("RAW", r.err, r.fs, log) ELSE Returned(r.fs, log, out)

\* the removal of the new path before an overwriting rename, errors ignored
clearNew(f, newStats, validatedNewPath) ==
  IF newStats.err # "OK" THEN f
  ELSE IF newStats.node.kind = "dir" THEN rmdir(f, validatedNewPath).fs
  ELSE unlink(f, validatedNewPath).fs

clearNewLog(newStats, validatedNewPath) ==
  IF newStats.err # "OK" THEN <<>>
  ELSE IF newStats.node.kind = "dir" THEN <<Event("rmdir", validatedNewPath)>>
  ELSE <<Event("unlink", validatedNewPath)>>

\* renameFileOrDirectory once fs.mkdir (mk) has been made
renameDirsMade(mk, newStats, validatedOldPath, validatedNewPath, overwrite, log3) ==
  LET out == [oldPath |-> validatedOldPath, newPath |-> validatedNewPath] IN
  IF mk.err # "OK" THEN Thrown("RAW", mk.err, mk.fs, log3)
  ELSE IF overwrite
    THEN unwrapped(rename(clearNew(mk.fs, newStats, validatedNewPath),
                          validatedOldPath, validatedNewPath),
                   log3 \o clearNewLog(newStats, validatedNewPath)
                        \o <<Event("rename", validatedNewPath)>>, out)
  ELSE unwrapped(rename(mk.fs, validatedOldPath, validatedNewPath),
                 log3 \o <<Event("rename", validatedNewPath)>>, out)

\* the directory of the new name is made when createDirs
dirsMade(f, validatedNewPath, createDirs) ==
  IF createDirs THEN mkdirRecursive(f, dirname(validatedNewPath)) ELSE FsOk(f)

dirsLog(validatedNewPath, createDirs) ==
  IF createDirs THEN <<Event("mkdir", dirname(validatedNewPath))>> ELSE <<>>

renameMkdir(mk, validatedOldPath, validatedNewPath, overwrite, log3) ==
  renameDirsMade(mk, stat(mk.fs, validatedNewPath), validatedOldPath, validatedNewPath,
                 overwrite, log3)

\* renameFileOrDirectory once both paths went through validatePath (vo, vn)
renameValidated(f, vo, vn, oldPath, newPath, overwrite, createDirs) ==
  LET log1 == <<Event("validatePath", oldPath)>>
      log2 == log1 \o <<Event("validatePath", newPath)>> IN
  IF ~vo.ok THEN Thrown(vo.kind, "oldPath", f, log1)
  ELSE IF ~vn.ok THEN Thrown(vn.kind, "newPath", f, log2)
  ELSE IF access(f, vo.path) # "OK"
    THEN Thrown("FILE_NOT_FOUND", "old path does not exist", f, log2)
  ELSE IF ~overwrite /\ access(f, vn.path) = "OK"
    THEN Thrown("FILE_ALREADY_EXISTS", "new path exists", f, log2)
  ELSE renameMkdir(dirsMade(f, vn.path, createDirs), vo.path, vn.path, overwrite,
                   log2 \o dirsLog(vn.path, createDirs))

renameFileOrDirectory(f, c, oldPath, newPath, overwrite, createDirs) ==
  renameValidated(f, validatePath(f, c, oldPath), validatePath(f, c, newPath),
                  oldPath, newPath, overwrite, createDirs)

\* the unlink of the destination before an overwriting link, errors ignored
unlinkIgnored(f, path, overwrite) == IF overwrite THEN unlink(f, path).fs ELSE f

unlinkLog(path, overwrite) == IF overwrite THEN <<Event("unlink", path)>> ELSE <<>>

\* createHardLink once fs.mkdir (mk) has been made
hardLinkDirsMade(mk, validatedSource, validatedDestination, overwrite, log3) ==
  IF mk.err # "OK" THEN Thrown("RAW", mk.err, mk.fs, log3)
  ELSE unwrapped(link(unlinkIgnored(mk.fs, validatedDestination, overwrite),
                      validatedSource, validatedDestination),
                 log3 \o unlinkLog(validatedDestination, overwrite)
                      \o <<Event("link", validatedDestination)>>,
                 [source |-> validatedSource, destination |-> validatedDestination])

\* createHardLink from the stat of the existing source on
hardLinkExisting(f, sourceStats, validatedSource, validatedDestination, overwrite, createDirs, log2) ==
  IF sourceStats.err # "OK" THEN Thrown("RAW", sourceStats.err, f, log2)
  ELSE IF sourceStats.node.kind = "dir"
    THEN Thrown("INVALID_OPERATION", "hard link to a directory", f, log2)
  ELSE IF ~overwrite /\ access(f, validatedDestination) = "OK"
    THEN Thrown("FILE_ALREADY_EXISTS", "destination exists", f, log2)
  ELSE hardLinkDirsMade(dirsMade(f, validatedDestination, createDirs), validatedSource,
                        validatedDestination, overwrite,
                        log2 \o dirsLog(validatedDestination, createDirs))

\* createHardLink without the test of the source being a directory
hardLinkValidated_NoDirectoryTest(f, vs, vd, source, destination, overwrite, createDirs) ==
  LET log1 == <<Event("validatePath", source)>>
      log2 == log1 \o <<Event("validatePath", destination)>> IN
  IF ~vs.ok THEN Thrown(vs.kind, "source", f, log1)
  ELSE IF ~vd.ok THEN Thrown(vd.kind, "destination", f, log2)
  ELSE IF access(f, vs.path) # "OK"
    THEN Thrown("FILE_NOT_FOUND", "source does not exist", f, log2)
  ELSE hardLinkExisting(f, [stat(f, vs.path) EXCEPT !.node = File(0)], vs.path, vd.path,
                        overwrite, createDirs, log2)

\* createHardLink once both paths went through validatePath (vs, vd)
hardLinkValidated(f, vs, vd, source, destination, overwrite, createDirs) ==
  LET log1 == <<Event("validatePath", source)>>
      log2 == log1 \o <<Event("validatePath", destination)>> IN
  IF ~vs.ok THEN Thrown(vs.kind, "source", f, log1)
  ELSE IF ~vd.ok THEN Thrown(vd.kind, "destination", f, log2)
  ELSE IF access(f, vs.path) # "OK"
    THEN Thrown("FILE_NOT_FOUND", "source does not exist", f, log2)
  ELSE hardLinkExisting(f, stat(f, vs.path), vs.path, vd.path, overwrite, createDirs, log2)

createHardLink(f, c, source, destination, overwrite, createDirs) ==
  hardLinkValidated(f, validatePath(f, c, source), validatePath(f, c, destination),
                    source, destination, overwrite, createDirs)

\* createSymbolicLink (lib/file-operations.ts) where platform() is not win32
createSymbolicLink(f, target, linkPath) == symlink(f, target, linkPath)

\* createSoftLink once fs.mkdir (mk) has been made
softLinkDirsMade(mk, validatedTarget, validatedLinkPath, overwrite, targetExists, log3) ==
  IF mk.err # "OK" THEN Thrown("RAW", mk.err, mk.fs, log3)
  ELSE unwrapped(createSymbolicLink(unlinkIgnored(mk.fs, validatedLinkPath, overwrite),
                                    validatedTarget, validatedLinkPath),
                 log3 \o unlinkLog(validatedLinkPath, overwrite)
                      \o <<Event("symlink", validatedLinkPath)>>,
                 [target |-> validatedTarget, linkPath |-> validatedLinkPath,
                  targetExists |-> targetExists])

\* createSoftLink once both paths went through validatePath (vt, vl)
softLinkValidated(f, vt, vl, target, linkPath, overwrite, createDirs) ==
  LET log1 == <<Event("validatePath", target)>>
      log2 == log1 \o <<Event("validatePath", linkPath)>> IN
  IF ~vt.ok THEN Thrown(vt.kind, "target", f, log1)
  ELSE IF ~vl.ok THEN Thrown(vl.kind, "linkPath", f, log2)
  ELSE IF ~overwrite /\ access(f, vl.path) = "OK"
    THEN Thrown("FILE_ALREADY_EXISTS", "link path exists", f, log2)
  ELSE softLinkDirsMade(dirsMade(f, vl.path, createDirs), vt.path, vl.path, overwrite,
                        access(f, vt.path) = "OK", log2 \o dirsLog(vl.path, createDirs))

createSoftLink(f, c, target, linkPath, overwrite, createDirs) ==
  softLinkValidated(f, validatePath(f, c, target), validatePath(f, c, linkPath),
                    target, linkPath, overwrite, createDirs)

\* readSoftLink from the lstat of the existing path on
readSoftLinkExisting(f, stats, rl, validatedLinkPath, log1) ==
  IF stats.err # "OK" THEN Thrown("RAW", stats.err, f, log1)
  ELSE IF stats.node.kind # "link"
    THEN Thrown("INVALID_OPERATION", "path is no soft link", f, log1)
  ELSE IF rl.err # "OK"
    THEN Thrown("RAW", rl.err, f, log1 \o <<Event("readlink", validatedLinkPath)>>)
  ELSE Returned(f, log1 \o <<Event("readlink", validatedLinkPath)>>,
                [linkPath |-> validatedLinkPath, target |-> rl.target])

readSoftLinkValidated(f, v, linkPath) ==
  LET log1 == <<Event("validatePath", linkPath)>> IN
  IF ~v.ok THEN Thrown(v.kind, "linkPath", f, log1)
  ELSE IF access(f, v.path) # "OK"
    THEN Thrown("FILE_NOT_FOUND", "link does not exist", f, log1)
  ELSE readSoftLinkExisting(f, lstat(f, v.path), readlink(f, v.path), v.path, log1)

readSoftLink(f, c, linkPath) == readSoftLinkValidated(f, validatePath(f, c, linkPath), linkPath)

\* changeFilePermissions from parseInt(mode, 8) (n) on
changeParsed(f, n, validatedPath, mode, log1) ==
  IF n.nan \/ (n.neg /\ n.value > 0) \/ n.value > 511
    THEN Thrown("VALIDATION_ERROR", "invalid mode", f, log1)
  ELSE unwrapped(chmod(f, validatedPath, n.value),
                 log1 \o <<Event("chmod", validatedPath)>>,
                 [path |-> validatedPath, mode |-> mode, numericMode |-> n.value])

changeValidated(f, v, filePath, mode) ==
  LET log1 == <<Event("validatePath", filePath)>> IN
  IF ~v.ok THEN Thrown(v.kind, "path", f, log1)
  ELSE IF access(f, v.path) # "OK"
    THEN Thrown("FILE_NOT_FOUND", "path does not exist", f, log1)
  ELSE changeParsed(f, parseInt8(mode), v.path, mode, log1)

changeFilePermissions(f, c, filePath, mode) ==
  changeValidated(f, validatePath(f, c, filePath), filePath, mode)

\* what both getFileInfo and getFileInfoDescription report of the stats
FileInfo(validatedPath, node) ==
  [path |-> validatedPath, isDirectory |-> node.kind = "dir", isFile |-> node.kind = "file"]

\* getFileInfo (lib/file-operations.ts) with every error of stat turned
\* into FILE_NOT_FOUND
getFileInfoValidated_NotFound(f, v, stats, filePath) ==
  LET log1 == <<Event("validatePath", filePath)>> IN
  IF ~v.ok THEN Thrown(v.kind, "path", f, log1)
  ELSE IF stats.err # "OK" THEN Thrown("FILE_NOT_FOUND", stats.err, f, log1)
  ELSE Returned(f, log1, FileInfo(v.path, stats.node))

\* getFileInfo (lib/file-operations.ts): stat is inside the try block
getFileInfoValidated(f, v, stats, filePath) ==
  LET log1 == <<Event("validatePath", filePath)>> IN
  IF ~v.ok THEN Thrown(v.kind, "path", f, log1)
  ELSE IF stats.err # "OK" THEN Thrown("OPERATION_FAILED", stats.err, f, log1)
  ELSE Returned(f, log1, FileInfo(v.path, stats.node))

getFileInfoStat(f, v, filePath) == getFileInfoValidated(f, v, stat(f, v.path), filePath)

getFileInfo(f, c, filePath) == getFileInfoStat(f, validatePath(f, c, filePath), filePath)

\* getFileInfoDescription (lib/utils.ts): fs.access first, stat unwrapped
descriptionValidated(f, v, stats, filePath) ==
  LET log1 == <<Event("validatePath", filePath)>> IN
  IF ~v.ok THEN Thrown(v.kind, "path", f, log1)
  ELSE IF access(f, v.path) # "OK"
    THEN Thrown("FILE_NOT_FOUND", "path does not exist", f, log1)
  ELSE IF stats.err # "OK" THEN Thrown("RAW", stats.err, f, log1)
  ELSE Returned(f, log1, FileInfo(v.path, stats.node))

descriptionStat(f, v, filePath) == descriptionValidated(f, v, stat(f, v.path), filePath)

getFileInfoDescription(f, c, filePath) ==
  descriptionStat(f, validatePath(f, c, filePath), filePath)

(***************************************************************************)
(* SpecUtils: one call of an operation of lib/utils.ts, or of getFileInfo, *)
(* on the tree of SpecOps                                                  *)
(***************************************************************************)
FileAN == <<"/", "w", "/", "a", "/", "n">>
DirDN == <<"/", "w", "/", "d", "/", "n">>
NewNN == <<"/", "w", "/", "n", "/", "n">>

OldPaths == {FileA, FileR, DirD, DirE, LinkL, NewN, OutsideS, Outside, <<>>}
NewPaths == {FileA, FileB, DirD, DirDN, DirE, NewN, NewNN, FileAN, Outside, <<>>}

Modes ==
  {<<"7", "5", "5">>, <<"6", "4", "4">>, <<"4", "4", "4">>, <<"0", "0", "0">>,
   <<"7">>, <<"7", "5">>, <<"0", "7", "5", "5">>, <<"7", "5", "x">>, <<" ", "7", "5", "5">>,
   <<"+", "7", "5">>, <<"-", "0">>, <<"-", "1">>, <<"8">>, <<"9", "9", "9">>,
   <<"1", "0", "0", "0">>, <<"i", "n", "v", "a", "l", "i", "d">>, <<>>}

UtilCall(op, path, other, overwrite, createDirs, mode) ==
  [op |-> op, paths |-> <<path>>, dest |-> other, overwrite |-> overwrite,
   createDirs |-> createDirs, mode |-> mode]

PairCalls(op) ==
  {UtilCall(op, s, d, o, m, <<>>) :
     s \in OldPaths, d \in NewPaths, o \in BOOLEAN, m \in BOOLEAN}

PathCalls(op) == {UtilCall(op, s, <<>>, FALSE, FALSE, <<>>) : s \in OldPaths \cup {FileAN}}

ChangeCalls ==
  {UtilCall("changeFilePermissions", s, <<>>, FALSE, FALSE, mode) :
     s \in {FileA, FileR, DirE, NewN, OutsideS}, mode \in Modes}

UtilsCalls ==
  PairCalls("renameFileOrDirectory") \cup PairCalls("createHardLink")
  \cup PairCalls("createSoftLink") \cup PathCalls("readSoftLink")
  \cup PathCalls("getFileInfo") \cup PathCalls("getFileInfoDescription")
  \cup ChangeCalls

InitUtils ==
  /\ fs = OpsTree
  /\ cfg = Production
  /\ \E call \in UtilsCalls : queue = <<call>>
  /\ last = NoCall
  /\ prev = NoCall
  /\ run = Idle
  /\ seen = NoRead

RenameCall ==
  /\ Next("renameFileOrDirectory")
  /\ LET q == Head(queue) IN
     Made("renameFileOrDirectory",
          renameFileOrDirectory(fs, cfg, q.paths[1], q.dest, q.overwrite, q.createDirs))

CreateHardLinkCall ==
  /\ Next("createHardLink")
  /\ LET q == Head(queue) IN
     Made("createHardLink",
          createHardLink(fs, cfg, q.paths[1], q.dest, q.overwrite, q.createDirs))

CreateSoftLinkCall ==
  /\ Next("createSoftLink")
  /\ LET q == Head(queue) IN
     Made("createSoftLink",
          createSoftLink(fs, cfg, q.paths[1], q.dest, q.overwrite, q.createDirs))

ReadSoftLinkCall ==
  /\ Next("readSoftLink")
  /\ Made("readSoftLink", readSoftLink(fs, cfg, Head(queue).paths[1]))

ChangePermissionsCall ==
  /\ Next("changeFilePermissions")
  /\ LET q == Head(queue) IN
     Made("changeFilePermissions", changeFilePermissions(fs, cfg, q.paths[1], q.mode))

GetFileInfoCall ==
  /\ Next("getFileInfo")
  /\ Made("getFileInfo", getFileInfo(fs, cfg, Head(queue).paths[1]))

GetFileInfoDescriptionCall ==
  /\ Next("getFileInfoDescription")
  /\ Made("getFileInfoDescription", getFileInfoDescription(fs, cfg, Head(queue).paths[1]))

NextUtils ==
  \/ RenameCall
  \/ CreateHardLinkCall
  \/ CreateSoftLinkCall
  \/ ReadSoftLinkCall
  \/ ChangePermissionsCall
  \/ GetFileInfoCall
  \/ GetFileInfoDescriptionCall

SpecUtils == InitUtils /\ [][NextUtils]_vars

UtilsDone == last.op # "none" /\ last.res.kind = "RAW"

(***************************************************************************)
(* Claims about the errors of the single-file operations                   *)
(***************************************************************************)
UtilsOps ==
  {"renameFileOrDirectory", "createHardLink", "createSoftLink", "readSoftLink",
   "changeFilePermissions", "getFileInfo", "getFileInfoDescription"}

UtilsCallMade == last.op \in UtilsOps

\* C13: a single-file operation that fails throws a FileSystemError; an
\* underlying I/O error is never thrown raw to the caller of the operation.
C13_NoRawError ==
  UtilsCallMade => (last.res.ok \/ last.res.kind # "RAW")

\* a force call that gets as far as validateForceDeleteOperation
GuardReached ==
  /\ ForceCall
  /\ \/ last.op = "batchDeleteFiles"
     \/ LET v == validatePath(last.pre, cfg, last.call.paths[1]) IN
        /\ v.ok
        /\ access(last.pre, v.path) = "OK"
        /\ stat(last.pre, v.path).node.kind # "dir"

PolicyMessage == "policy forbids force delete"
DeclinedMessage == "user cancelled force delete"

\* C14: every rejection by the force-delete guard reaches the caller as
\* PERMISSION_DENIED, with one message when allowForceDelete is false and
\* another one when the confirmation was not given.
C14_GuardRejectionMessages ==
  /\ (GuardReached /\ GuardRejects) =>
       /\ ~last.res.ok /\ last.res.kind = "PERMISSION_DENIED"
       /\ last.res.msg = IF ~cfg.allowForceDelete THEN PolicyMessage ELSE DeclinedMessage
  /\ (ForceCall /\ ~last.res.ok /\ last.res.msg = PolicyMessage) => ~cfg.allowForceDelete
  /\ (ForceCall /\ ~last.res.ok /\ last.res.msg = DeclinedMessage) =>
       /\ cfg.allowForceDelete /\ cfg.forceDeleteRequiresConfirmation
       /\ ~ExplicitAccept(last.call.el)

\* a force delete of an existing file is refused by the policy although the
\* user would have confirmed
C14_Witness ==
  /\ GuardReached /\ last.op = "deleteFile"
  /\ ~cfg.allowForceDelete /\ ExplicitAccept(last.call.el)
  /\ last.res.kind = "PERMISSION_DENIED" /\ last.res.msg = PolicyMessage
  /\ fs = last.pre

\* the path of the deleteFile call passes validatePath and can be accessed
DeleteTargetExists ==
  LET v == validatePath(last.pre, cfg, last.call.paths[1]) IN
  v.ok /\ access(last.pre, v.path) = "OK"

DeleteTargetNode ==
  stat(last.pre, validatePath(last.pre, cfg, last.call.paths[1]).path).node

DeleteTargetProtected ==
  \/ isSensitiveFile(validatePath(last.pre, cfg, last.call.paths[1]).path)
  \/ ~DeleteTargetNode.writable

\* C15: deleteFile changes the filesystem only when the path exists, is no
\* directory and, without force, is neither sensitive nor read-only, and
\* then it removes that one entry; a failing call removes nothing.  Of a path
\* that passes validation: missing gives FILE_NOT_FOUND, a directory gives
\* INVALID_OPERATION, sensitive or read-only without force PERMISSION_DENIED.
C15_DeletePrechecks ==
  last.op = "deleteFile" =>
    /\ ~last.res.ok => fs = last.pre
    /\ fs # last.pre =>
         /\ last.res.ok /\ DeleteTargetExists /\ DeleteTargetNode.kind # "dir"
         /\ last.call.force \/ ~DeleteTargetProtected
         /\ \E x \in DOMAIN last.pre : fs = Remove(last.pre, x)
    /\ (validatePath(last.pre, cfg, last.call.paths[1]).ok /\ ~DeleteTargetExists)
         => (~last.res.ok /\ last.res.kind = "FILE_NOT_FOUND")
    /\ (DeleteTargetExists /\ DeleteTargetNode.kind = "dir")
         => (~last.res.ok /\ last.res.kind = "INVALID_OPERATION")
    /\ (DeleteTargetExists /\ DeleteTargetNode.kind # "dir" /\ ~last.call.force
          /\ DeleteTargetProtected)
         => (~last.res.ok /\ last.res.kind = "PERMISSION_DENIED")
    /\ (DeleteTargetExists /\ DeleteTargetNode.kind # "dir" /\ ~last.call.force
          /\ ~DeleteTargetProtected)
         => (last.res.ok /\ fs # last.pre)

\* the read-only file is refused without force and is still there
C15_Witness ==
  /\ last.op = "deleteFile" /\ ~last.call.force
  /\ last.call.paths[1] = FileR
  /\ last.res.kind = "PERMISSION_DENIED" /\ last.res.msg = "read-only file"
  /\ FileR \in DOMAIN fs

(***************************************************************************)
(* Claims about createHardLink                                             *)
(***************************************************************************)
\* the source of the createHardLink call is a directory (through links too)
SourceIsDirectory ==
  /\ last.op = "createHardLink"
  /\ LET s == stat(last.pre, IF isAbsolute(last.call.paths[1]) THEN last.call.paths[1]
                             ELSE cwd \o <<sep>> \o last.call.paths[1]) IN
     last.call.paths[1] # <<>> /\ s.err = "OK" /\ s.node.kind = "dir"

\* C16 as stated: createHardLink of a directory fails with INVALID_OPERATION
\* whatever the flags and the destination are, and changes nothing.
C16_DirectorySourceRefused ==
  SourceIsDirectory =>
    (~last.res.ok /\ last.res.kind = "INVALID_OPERATION" /\ fs = last.pre)

\* C16: createHardLink of a directory changes nothing and fails; the kind is
\* INVALID_OPERATION whenever both paths pass validatePath, whatever the
\* flags are and whether the destination exists or not.
C16_ValidatedDirectorySourceRefused ==
  SourceIsDirectory =>
    /\ ~last.res.ok /\ fs = last.pre
    /\ (/\ validatePath(last.pre, cfg, last.call.paths[1]).ok
        /\ validatePath(last.pre, cfg, last.call.dest).ok)
         => last.res.kind = "INVALID_OPERATION"

\* a directory is refused as source although overwrite is set and the
\* destination is an existing file
C16_Witness ==
  /\ SourceIsDirectory /\ last.call.paths[1] = DirE
  /\ last.call.dest = FileB /\ last.call.overwrite
  /\ last.res.kind = "INVALID_OPERATION"
  /\ FileB \in DOMAIN fs

(***************************************************************************)
(* lib/utils.ts: createSuccessResponse, createErrorResponse and            *)
(* handleAsyncOperation.  A JavaScript value is its type and its content;  *)
(* a string is the sequence of its characters.                             *)
(***************************************************************************)
JsString(str) == [type |-> "string", value |-> str]
JsObject(fields) == [type |-> "object", fields |-> fields]
JsUndefined == [type |-> "undefined", value |-> <<>>]
JsBigInt == [type |-> "bigint", value |-> <<"1">>]
JsNumber(digits) == [type |-> "number", value |-> digits]
\* an Error or a FileSystemError (name) with its message
JsError(name, message) == [type |-> "error", name |-> name, value |-> message]
\* an object whose conversion to a string throws
JsHostile == [type |-> "hostile", value |-> <<>>]

Quote == "\""
NewLine == "\n"
\* the cross mark U+274C, written X here, and a space
FailureMarker == <<"X", " ">>

\* the characters of a string inside a JSON string literal
RECURSIVE JsonEscape(_)
JsonEscape(str) ==
  IF str = <<>> THEN <<>>
  ELSE IF Head(str) = Quote \/ Head(str) = BS
    THEN <<BS, Head(str)>> \o JsonEscape(Tail(str))
  ELSE <<Head(str)>> \o JsonEscape(Tail(str))

\* one "key": "value" line of JSON.stringify(object, null, 2)
JsonField(field) ==
  <<" ", " ", Quote>> \o JsonEscape(field.key) \o <<Quote, ":", " ", Quote>>
    \o JsonEscape(field.value) \o <<Quote>>

RECURSIVE JsonFields(_)
JsonFields(fields) ==
  IF Len(fields) = 1 THEN JsonField(fields[1])
  ELSE JsonField(fields[1]) \o <<",", NewLine>> \o JsonFields(Tail(fields))

\* JSON.stringify(result, null, 2): the text, undefined, or a TypeError
JsonStringify(v) ==
  IF v.type = "undefined" THEN [throws |-> FALSE, text |-> JsUndefined]
  ELSE IF v.type = "bigint"
    THEN [throws |-> TRUE, text |-> JsError("TypeError", <<"B", "i", "g", "I", "n", "t">>)]
  ELSE IF v.type = "number" THEN [throws |-> FALSE, text |-> JsString(v.value)]
  ELSE IF v.fields = <<>> THEN [throws |-> FALSE, text |-> JsString(<<"{", "}">>)]
  ELSE [throws |-> FALSE,
        text |-> JsString(<<"{", NewLine>> \o JsonFields(v.fields) \o <<NewLine, "}">>)]

\* String(error) for what is no Error
StringOf(v) ==
  IF v.type = "undefined" THEN <<"u", "n", "d", "e", "f", "i", "n", "e", "d">>
  ELSE IF v.type = "object" THEN <<"[", "o", "b", "j", "e", "c", "t", "]">>
  ELSE v.value

Response(text, isError) ==
  [responded |-> TRUE, content |-> <<[type |-> "text", text |-> text]>>, isError |-> isError]

\* handleAsyncOperation itself rejects
AdapterRejects == [responded |-> FALSE, content |-> <<>>, isError |-> TRUE]

createSuccessResponse(message) == Response(message, FALSE)

\* createErrorResponse without the failure marker
createErrorResponse_NoMarker(error) == Response(JsString(error.value), TRUE)

\* error is an Error or a string
createErrorResponse(error) == Response(JsString(FailureMarker \o error.value), TRUE)

\* the catch block of handleAsyncOperation
handleCaught(error) ==
  IF error.type = "error" THEN createErrorResponse(error)
  ELSE IF error.type = "hostile" THEN AdapterRejects
  ELSE createErrorResponse(JsString(StringOf(error)))

\* the try block once JSON.stringify has been called (json)
handleStringified(json) ==
  IF json.throws THEN handleCaught(json.text) ELSE createSuccessResponse(json.text)

\* outcome is what operation() gives: a value returned or a value thrown
handleAsyncOperation(outcome, successMessage) ==
  IF ~outcome.returns THEN handleCaught(outcome.value)
  ELSE IF successMessage.type = "string" /\ successMessage.value # <<>>
    THEN createSuccessResponse(successMessage)
  ELSE IF outcome.value.type = "string" THEN createSuccessResponse(outcome.value)
  ELSE handleStringified(JsonStringify(outcome.value))

(***************************************************************************)
(* SpecAdapter: one call of handleAsyncOperation, for what an operation    *)
(* can return or throw                                                     *)
(***************************************************************************)
Texts ==
  {<<>>, <<"o", "k">>, <<"a", Quote, "b">>, <<"a", BS, "b">>, <<"X", " ", "n", "o">>}

Field(key, value) == [key |-> key, value |-> value]

Objects ==
  {<<>>} \cup {<<Field(<<"m">>, t)>> : t \in Texts}
  \cup {<<Field(<<"m">>, t), Field(<<"n">>, u)>> : t \in Texts, u \in Texts}

ErrorNames == {"FileSystemError", "Error"}

Returns(v) == [returns |-> TRUE, value |-> v]
Throws(e) == [returns |-> FALSE, value |-> e]

Outcomes ==
  {Returns(JsString(t)) : t \in Texts}
  \cup {Returns(JsObject(o)) : o \in Objects}
  \cup {Returns(JsUndefined), Returns(JsBigInt)}
  \cup {Throws(JsError(n, t)) : n \in ErrorNames, t \in Texts}
  \cup {Throws(JsString(t)) : t \in Texts}
  \cup {Throws(JsUndefined), Throws(JsNumber(<<"4", "2">>)), Throws(JsHostile)}

SuccessMessages == {JsUndefined, JsString(<<>>), JsString(<<"d", "o", "n", "e">>)}

InitAdapter ==
  /\ fs = OpsTree
  /\ cfg = Production
  /\ \E o \in Outcomes, m \in SuccessMessages :
       queue = <<[op |-> "handleAsyncOperation", outcome |-> o, successMessage |-> m]>>
  /\ last = NoCall
  /\ prev = NoCall
  /\ run = Idle
  /\ seen = NoRead

HandleAsyncOperationCall ==
  /\ Next("handleAsyncOperation")
  /\ last' = [op |-> "handleAsyncOperation", call |-> Head(queue), pre |-> fs,
              res |-> handleAsyncOperation(Head(queue).outcome, Head(queue).successMessage)]
  /\ prev' = last
  /\ queue' = Tail(queue)
  /\ UNCHANGED <<fs, cfg, run, seen>>

NextAdapter == HandleAsyncOperationCall

SpecAdapter == InitAdapter /\ [][NextAdapter]_vars

\* a call as the tool handlers of index.ts make it: no successMessage
AdapterCall ==
  /\ last.op = "handleAsyncOperation"
  /\ last.call.successMessage.type = "undefined"

ResponseText == last.res.content[1].text

\* C17: a call through the adapter gives a response and does not throw.  A
\* returned string is the text and a returned object its JSON form, with
\* isError false; a thrown FileSystemError, Error or string gives isError
\* true and the failure marker followed by the message as text.
C17_AdapterResponds ==
  AdapterCall =>
    LET o == last.call.outcome IN
    /\ (o.returns /\ o.value.type = "string") =>
         /\ last.res.responded /\ ~last.res.isError
         /\ ResponseText = o.value
    /\ (o.returns /\ o.value.type = "object") =>
         /\ last.res.responded /\ ~last.res.isError
         /\ ResponseText = JsonStringify(o.value).text
         /\ ResponseText.type = "string"
    /\ (~o.returns /\ o.value.type \in {"error", "string"}) =>
         /\ last.res.responded /\ last.res.isError
         /\ Len(last.res.content) = 1
         /\ ResponseText = JsString(FailureMarker \o o.value.value)

\* a thrown FileSystemError whose message has a quote in it
C17_Witness ==
  /\ AdapterCall /\ ~last.call.outcome.returns
  /\ last.call.outcome.value.type = "error"
  /\ last.call.outcome.value.name = "FileSystemError"
  /\ last.res.isError
  /\ ResponseText.value = <<"X", " ", "a", Quote, "b">>

(***************************************************************************)
(* lib/utils.ts: formatBatchOperationResult, and the batch tools of        *)
(* index.ts.  The text is the sequence of its lines.                       *)
(***************************************************************************)
Line(kind, count, text, path) == [line |-> kind, count |-> count, text |-> text, path |-> path]

Blank == Line("blank", 0, "", <<>>)

\* the bullet lines of a list of entries
Bullets(entries) == [i \in 1..Len(entries) |-> Line("bullet", i, entries[i].text, entries[i].path)]

\* formatBatchOperationResult with the failure section always there
formatBatchOperationResult_AlwaysFailure(result, operationName) ==
  <<Line("header", 0, operationName, <<>>), Blank>>
  \o (IF Len(result.results) > 0
        THEN <<Line("success", result.successCount, "", <<>>)>>
             \o Bullets(result.results) \o <<Blank>>
      ELSE <<>>)
  \o <<Line("failure", result.errorCount, "", <<>>)>> \o Bullets(result.errors)

formatBatchOperationResult(result, operationName) ==
  <<Line("header", 0, operationName, <<>>), Blank>>
  \o (IF Len(result.results) > 0
        THEN <<Line("success", result.successCount, "", <<>>)>>
             \o Bullets(result.results) \o <<Blank>>
      ELSE <<>>)
  \o (IF Len(result.errors) > 0
        THEN <<Line("failure", result.errorCount, "", <<>>)>> \o Bullets(result.errors)
      ELSE <<>>)

\* what the function given to handleAsyncOperation by a batch tool returns or
\* throws, res being the outcome of the batch operation
batchToolOutcome(res, operationName) ==
  IF res.ok THEN Returns(JsString(formatBatchOperationResult(res.out, operationName)))
  ELSE Throws(JsError(IF res.kind = "RAW" THEN "Error" ELSE "FileSystemError", <<res.msg>>))

batchTool(res, operationName) ==
  handleAsyncOperation(batchToolOutcome(res, operationName), JsUndefined)

(***************************************************************************)
(* SpecBatchTools: one call of the batch-move, batch-copy or batch-delete  *)
(* tool                                                                    *)
(***************************************************************************)
ToolSources == {FileA, FileB, NewN, OutsideS}
ToolDestinations == {DirE, DirD, NewN, Outside}
ToolDeletePaths == {FileA, FileK, DirE, NewN, OutsideS}

BatchToolCalls ==
  {Call(op, ss, d, o, m, FALSE, Unavailable) :
     op \in {"batch-move", "batch-copy"}, ss \in Lists(ToolSources),
     d \in ToolDestinations, o \in BOOLEAN, m \in BOOLEAN}
  \cup {Call("batch-delete", ps, <<>>, FALSE, TRUE, FALSE, Unavailable) :
          ps \in Lists(ToolDeletePaths)}
  \cup {Call("batch-delete", ps, <<>>, FALSE, TRUE, TRUE, el) :
          ps \in Lists(ToolDeletePaths), el \in BatchEnvs}

InitBatchTools ==
  /\ fs = OpsTree
  /\ cfg = Production
  /\ \E call \in BatchToolCalls : queue = <<call>>
  /\ last = NoCall
  /\ prev = NoCall
  /\ run = Idle
  /\ seen = NoRead

\* the tool call at the head of the queue is answered with response
Answered(op, res, response) ==
  /\ last' = [op |-> op, call |-> Head(queue), pre |-> fs, res |-> res,
              response |-> response]
  /\ prev' = last
  /\ fs' = res.fs
  /\ queue' = Tail(queue)
  /\ UNCHANGED <<cfg, run, seen>>

BatchToolAnswered(op, res, operationName) ==
  Answered(op, res, batchTool(res, operationName))

BatchMoveTool ==
  /\ Next("batch-move")
  /\ LET q == Head(queue) IN
     BatchToolAnswered("batch-move",
       batchMoveFiles(fs, cfg, q.paths, q.dest, q.overwrite, q.createDirs), "move")

BatchCopyTool ==
  /\ Next("batch-copy")
  /\ LET q == Head(queue) IN
     BatchToolAnswered("batch-copy",
       batchCopyFiles(fs, cfg, q.paths, q.dest, q.overwrite, q.createDirs), "copy")

BatchDeleteTool ==
  /\ Next("batch-delete")
  /\ LET q == Head(queue) IN
     BatchToolAnswered("batch-delete",
       batchDeleteFiles(fs, cfg, q.el, q.paths, q.force), "delete")

NextBatchTools ==
  \/ BatchMoveTool
  \/ BatchCopyTool
  \/ BatchDeleteTool

SpecBatchTools == InitBatchTools /\ [][NextBatchTools]_vars

BatchToolCalled == last.op \in {"batch-move", "batch-copy", "batch-delete"}

\* the lines of the text of the response
ResponseLines == last.response.content[1].text.value

LinesOf(kind) == {i \in 1..Len(ResponseLines) : ResponseLines[i].line = kind}

\* the bullet lines that follow line i up to the next line that is none
RECURSIVE BulletsAfter(_, _)
BulletsAfter(lines, i) ==
  IF i < Len(lines) /\ lines[i + 1].line = "bullet"
    THEN <<lines[i + 1]>> \o BulletsAfter(lines, i + 1)
  ELSE <<>>

Section(kind) ==
  IF LinesOf(kind) = {} THEN <<>>
  ELSE BulletsAfter(ResponseLines, CHOOSE i \in LinesOf(kind) : TRUE)

\* C20: a batch tool call whose batch operation returns is answered without
\* isError; the text has a success section exactly when an item succeeded,
\* with their number, and a failure section exactly when an item failed,
\* with their number and the message of each of them.
C20_BatchToolSections ==
  (BatchToolCalled /\ last.res.ok) =>
    /\ last.response.responded /\ ~last.response.isError
    /\ Cardinality(LinesOf("success")) = (IF Len(last.res.out.results) > 0 THEN 1 ELSE 0)
    /\ Cardinality(LinesOf("failure")) = (IF Len(last.res.out.errors) > 0 THEN 1 ELSE 0)
    /\ \A i \in LinesOf("success") :
         /\ ResponseLines[i].count = Len(last.res.out.results)
         /\ Len(Section("success")) = Len(last.res.out.results)
    /\ \A i \in LinesOf("failure") :
         /\ ResponseLines[i].count = Len(last.res.out.errors)
         /\ Len(Section("failure")) = Len(last.res.out.errors)
         /\ \A k \in 1..Len(last.res.out.errors) :
              /\ Section("failure")[k].text = last.res.out.errors[k].text
              /\ Section("failure")[k].path = last.res.out.errors[k].path
         /\ \A j \in LinesOf("success") : j < i

\* a batch-move of an existing and a missing file: one item in each section
C20_Witness ==
  /\ last.op = "batch-move" /\ last.res.ok
  /\ last.call.paths = <<FileA, NewN>>
  /\ ~last.response.isError
  /\ Len(Section("success")) = 1 /\ Len(Section("failure")) = 1
  /\ Section("failure")[1].path = NewN

(***************************************************************************)
(* Claims about getFileInfo and changeFilePermissions                      *)
(***************************************************************************)
InfoOps == {"getFileInfo", "getFileInfoDescription"}

\* the path of the call passes validatePath and does not exist
MissingAuthorized ==
  LET v == validatePath(last.pre, cfg, last.call.paths[1]) IN
  v.ok /\ access(last.pre, v.path) = "ENOENT"

\* C18 as stated: getFileInfo and the stat of the file-info tool fail with
\* FILE_NOT_FOUND on an authorized path that does not exist.
C18_MissingIsNotFound ==
  (last.op \in InfoOps /\ MissingAuthorized) =>
    (~last.res.ok /\ last.res.kind = "FILE_NOT_FOUND")

\* C18: on an authorized path that does not exist getFileInfo fails with
\* OPERATION_FAILED, carrying the error of stat, and getFileInfoDescription
\* fails with FILE_NOT_FOUND; neither changes the filesystem.
C18_MissingPathInfo ==
  (last.op \in InfoOps /\ MissingAuthorized) =>
    /\ ~last.res.ok /\ fs = last.pre
    /\ last.op = "getFileInfo" =>
         (last.res.kind = "OPERATION_FAILED" /\ last.res.msg = "ENOENT")
    /\ last.op = "getFileInfoDescription" => last.res.kind = "FILE_NOT_FOUND"

\* getFileInfo of the missing /w/n
C18_Witness ==
  /\ last.op = "getFileInfo" /\ last.call.paths[1] = NewN
  /\ MissingAuthorized
  /\ last.res.kind = "OPERATION_FAILED"

ChangeCallMade == last.op = "changeFilePermissions"

\* the path of the call passes validatePath and exists
ExistingAuthorized ==
  LET v == validatePath(last.pre, cfg, last.call.paths[1]) IN
  v.ok /\ access(last.pre, v.path) = "OK"

\* C19: on an existing authorized path changeFilePermissions refuses with
\* VALIDATION_ERROR every mode that is not exactly three octal digits and
\* calls chmod for none of them; a mode that reaches chmod has three octal
\* digits.
C19_ModeIsThreeOctalDigits ==
  ChangeCallMade =>
    /\ (ExistingAuthorized /\ ~ChangePermissionsArgsSchema(last.call.mode)) =>
         /\ ~last.res.ok /\ last.res.kind = "VALIDATION_ERROR"
         /\ At(last.res.log, {"chmod"}) = {}
         /\ fs = last.pre
    /\ At(last.res.log, {"chmod"}) # {} => ChangePermissionsArgsSchema(last.call.mode)


(***************************************************************************)
(* The order of authorization, prompt and mutation within one call         *)
(***************************************************************************)
Mutations == {"mkdir", "rename", "copyFile", "unlink", "rmdir"}

\* the path validatePath hands back for a requested path it accepts
authorizedPath(requestedPath) == normalizePath(resolve(expandHome(requestedPath)))

\* the requested paths that went through validatePath before position i
ValidatedBefore(log, i) ==
  {log[j].path : j \in {k \in At(log, {"validatePath"}) : k < i}}

\* the mutation at position i works on a path validatePath returned earlier
\* in the call, or on the parent directory of such a path
MutationAuthorized(log, i) ==
  \E q \in ValidatedBefore(log, i) :
    log[i].path \in {authorizedPath(q), dirname(authorizedPath(q))}

\* the prompt at position i is about paths that all went through
\* validatePath earlier in the call
PromptAuthorized(log, i, paths) ==
  \A k \in 1..Len(paths) : paths[k] \in ValidatedBefore(log, i)

OpsCallMade == last.op \in DeleteOps \cup {"moveFile", "copyFile", "batchMoveFiles",
                                           "batchCopyFiles"}

\* C21: within one call no mkdir, rename, copy, unlink or rmdir is made on,
\* and no confirmation prompt is shown for, a path that validatePath has not
\* already authorized earlier in that call.
C21_AuthorizedBeforeEffect ==
  OpsCallMade =>
    /\ \A i \in At(last.res.log, Mutations) : MutationAuthorized(last.res.log, i)
    /\ \A i \in At(last.res.log, {"elicitInput"}) :
         PromptAuthorized(last.res.log, i, last.call.paths)

\* the part of C21 about the mutations alone
C21_MutationsAuthorized ==
  OpsCallMade =>
    \A i \in At(last.res.log, Mutations) : MutationAuthorized(last.res.log, i)

\* a forced batch delete of a path outside the allowed directories has shown
\* the prompt, and the path is then refused by validatePath
C21_Witness ==
  /\ last.op = "batchDeleteFiles" /\ last.call.force
  /\ At(last.res.log, {"elicitInput"}) = {1}
  /\ \E k \in 1..Len(last.call.paths) :
       ~validatePath(last.pre, cfg, last.call.paths[k]).ok


(***************************************************************************)
(* Concurrent calls: moveFile and deleteFile, one await at a time          *)
(*                                                                         *)
(* run is the pair of the calls in flight.  Every await of moveFile and of *)
(* deleteFile is one step, so the steps of the two calls interleave as the *)
(* event loop allows; validatePath, which only reads, is one step.         *)
(***************************************************************************)
NewM == <<"/", "w", "/", "m">>

Proc(op, source, destination, overwrite, createDirs) ==
  [op |-> op, source |-> source, destination |-> destination,
   overwrite |-> overwrite, createDirs |-> createDirs,
   pc |-> "validateSource", vs |-> <<>>, vd |-> <<>>, checked |-> FALSE,
   kind |-> "NONE"]

Goto(p, pc) == [p EXCEPT !.pc = pc]

\* throw new FileSystemError(kind), or the catch block wrapping another error
Throw(p, kind) == [p EXCEPT !.pc = "thrown", !.kind = kind]

Stepped(f, p) == [fs |-> f, proc |-> p]

AfterChecks(p) == Goto(p, IF p.createDirs THEN "mkdir" ELSE "rename")

\* const validatedSource = await validatePath(source)
validateSourceStep(f, c, p) ==
  LET v == validatePath(f, c, p.source) IN
  IF ~v.ok THEN Stepped(f, Throw(p, v.kind))
  ELSE Stepped(f, [Goto(p, IF p.op = "moveFile" THEN "validateDestination"
                           ELSE "accessSource") EXCEPT !.vs = v.path])

\* const validatedDestination = await validatePath(destination)
validateDestinationStep(f, c, p) ==
  LET v == validatePath(f, c, p.destination) IN
  IF ~v.ok THEN Stepped(f, Throw(p, v.kind))
  ELSE Stepped(f, [Goto(p, "accessSource") EXCEPT !.vd = v.path])

\* await fs.access(validatedSource) / await fs.access(validatedPath)
accessSourceStep(f, p) ==
  IF access(f, p.vs) # "OK" THEN Stepped(f, Throw(p, "FILE_NOT_FOUND"))
  ELSE IF p.op = "deleteFile" THEN Stepped(f, Goto(p, "stat"))
  ELSE IF ~p.overwrite THEN Stepped(f, Goto(p, "accessDestination"))
  ELSE Stepped(f, AfterChecks(p))

\* if (!overwrite) await fs.access(validatedDestination)
accessDestinationStep(f, p) ==
  IF access(f, p.vd) = "OK" THEN Stepped(f, Throw(p, "FILE_ALREADY_EXISTS"))
  ELSE Stepped(f, [AfterChecks(p) EXCEPT !.checked = TRUE])

\* fs.mkdir(targetDir) without the recursive option: an existing directory
\* is an error
mkdirStep_NotRecursive(f, p) ==
  IF access(f, dirname(p.vd)) = "OK" THEN Stepped(f, Throw(p, "OPERATION_FAILED"))
  ELSE Stepped(mkdirRecursive(f, dirname(p.vd)).fs, Goto(p, "rename"))

\* await fs.mkdir(dirname(validatedDestination), { recursive: true })
mkdirStep(f, p) ==
  LET mk == mkdirRecursive(f, dirname(p.vd)) IN
  IF mk.err # "OK" THEN Stepped(mk.fs, Throw(p, "OPERATION_FAILED"))
  ELSE Stepped(mk.fs, Goto(p, "rename"))

\* the rename that tests the destination again in the same step
renameStep_Exclusive(f, p) ==
  LET r == rename(f, p.vs, p.vd) IN
  IF ~p.overwrite /\ access(f, p.vd) = "OK"
    THEN Stepped(f, Throw(p, "FILE_ALREADY_EXISTS"))
  ELSE IF r.err # "OK" THEN Stepped(f, Throw(p, "OPERATION_FAILED"))
  ELSE Stepped(r.fs, Goto(p, "returned"))

\* await fs.rename(validatedSource, validatedDestination)
renameStep(f, p) ==
  LET r == rename(f, p.vs, p.vd) IN
  IF r.err # "OK" THEN Stepped(f, Throw(p, "OPERATION_FAILED"))
  ELSE Stepped(r.fs, Goto(p, "returned"))

\* const stats = await stat(validatedPath) and the tests of deleteFile
\* without force
statStep(f, p) ==
  LET s == stat(f, p.vs) IN
  IF s.err # "OK" THEN Stepped(f, Throw(p, "OPERATION_FAILED"))
  ELSE IF s.node.kind = "dir" THEN Stepped(f, Throw(p, "INVALID_OPERATION"))
  ELSE IF isSensitiveFile(p.vs) \/ isReadOnlyFile(s.node)
    THEN Stepped(f, Throw(p, "PERMISSION_DENIED"))
  ELSE Stepped(f, Goto(p, "unlink"))

\* the unlink that takes a missing file for a deleted one
unlinkStep_IgnoresMissing(f, p) ==
  LET u == unlink(f, p.vs) IN
  IF u.err \notin {"OK", "ENOENT"} THEN Stepped(f, Throw(p, "OPERATION_FAILED"))
  ELSE Stepped(u.fs, Goto(p, "returned"))

\* await fs.unlink(validatedPath)
unlinkStep(f, p) ==
  LET u == unlink(f, p.vs) IN
  IF u.err # "OK" THEN Stepped(f, Throw(p, "OPERATION_FAILED"))
  ELSE Stepped(u.fs, Goto(p, "returned"))

(***************************************************************************)
(* SpecRace: two calls in flight at once                                   *)
(***************************************************************************)
RaceTree == OpsTree
RaceSources == {FileA, FileB}
RaceDestinations == {NewN, NewNN, NewM}

MoveProcs ==
  {Proc("moveFile", s, d, o, m) :
     s \in RaceSources, d \in RaceDestinations, o \in BOOLEAN, m \in BOOLEAN}

DeleteProcs == {Proc("deleteFile", s, <<>>, FALSE, FALSE) : s \in RaceSources}

InitRace ==
  /\ fs = RaceTree
  /\ cfg = Production
  /\ queue = <<>>
  /\ last = NoCall
  /\ prev = NoCall
  /\ run \in {<<p, q>> : p \in MoveProcs \cup DeleteProcs, q \in MoveProcs \cup DeleteProcs}
  /\ seen = NoRead

InFlight(i, pc) == DOMAIN run = {1, 2} /\ run[i].pc = pc

Resume(i, st) ==
  /\ fs' = st.fs
  /\ run' = [run EXCEPT ![i] = st.proc]
  /\ UNCHANGED <<cfg, queue, last, prev, seen>>

ValidateSourceStep ==
  \E i \in {1, 2} : InFlight(i, "validateSource")
                    /\ Resume(i, validateSourceStep(fs, cfg, run[i]))

ValidateDestinationStep ==
  \E i \in {1, 2} : InFlight(i, "validateDestination")
                    /\ Resume(i, validateDestinationStep(fs, cfg, run[i]))

AccessSourceStep ==
  \E i \in {1, 2} : InFlight(i, "accessSource") /\ Resume(i, accessSourceStep(fs, run[i]))

AccessDestinationStep ==
  \E i \in {1, 2} : InFlight(i, "accessDestination")
                    /\ Resume(i, accessDestinationStep(fs, run[i]))

MkdirStep ==
  \E i \in {1, 2} : InFlight(i, "mkdir") /\ Resume(i, mkdirStep(fs, run[i]))

RenameStep ==
  \E i \in {1, 2} : InFlight(i, "rename") /\ Resume(i, renameStep(fs, run[i]))

StatStep ==
  \E i \in {1, 2} : InFlight(i, "stat") /\ Resume(i, statStep(fs, run[i]))

UnlinkStep ==
  \E i \in {1, 2} : InFlight(i, "unlink") /\ Resume(i, unlinkStep(fs, run[i]))

NextRace ==
  \/ ValidateSourceStep
  \/ ValidateDestinationStep
  \/ AccessSourceStep
  \/ AccessDestinationStep
  \/ MkdirStep
  \/ RenameStep
  \/ StatStep
  \/ UnlinkStep

SpecRace == InitRace /\ [][NextRace]_vars

RaceCalls == DOMAIN run = {1, 2} /\ \A i \in {1, 2} : run[i].op \in {"moveFile", "deleteFile"}

Settled(i) == run[i].pc \in {"returned", "thrown"}

BothSettled == RaceCalls /\ Settled(1) /\ Settled(2)

BothMoves == RaceCalls /\ run[1].op = "moveFile" /\ run[2].op = "moveFile"

\* the real paths of the files that hold the content data
PlacesOf(data) == {q \in DOMAIN fs : fs[q].kind = "file" /\ fs[q].data = data}

ContentOf(source) == RaceTree[source].data

\* the directory of the destination is in the tree at the start, or the call
\* creates it
ParentThere(p) == p.createDirs \/ dirname(p.destination) \in DOMAIN RaceTree

\* C22: two concurrent moves with overwrite=false and distinct sources to the
\* same initially absent destination, whose directory is there or is created
\* by the call, can both pass the destination test: when both have passed it,
\* both rename, both report success, and the content of one of the two
\* sources is left nowhere in the filesystem.
C22_BothMovesSucceedOneLost ==
  (/\ BothMoves
   /\ ~run[1].overwrite /\ ~run[2].overwrite
   /\ run[1].source # run[2].source
   /\ run[1].destination = run[2].destination
   /\ \A i \in {1, 2} : ParentThere(run[i])
   /\ run[1].checked /\ run[2].checked
   /\ BothSettled)
  => /\ run[1].pc = "returned" /\ run[2].pc = "returned"
     /\ \E i \in {1, 2} :
          /\ PlacesOf(ContentOf(run[i].source)) = {run[i].vd}
          /\ PlacesOf(ContentOf(run[3 - i].source)) = {}
     /\ run[1].source \notin DOMAIN fs /\ run[2].source \notin DOMAIN fs

\* /w/a and /w/b were both moved to /w/n without overwrite: both calls
\* returned, /w/n holds the content of /w/b and the content of /w/a is gone
C22_Witness ==
  /\ BothMoves /\ BothSettled
  /\ run[1].source = FileA /\ run[2].source = FileB
  /\ run[1].destination = NewN /\ run[2].destination = NewN
  /\ ~run[1].overwrite /\ ~run[2].overwrite
  /\ run[1].pc = "returned" /\ run[2].pc = "returned"
  /\ fs[NewN].data = ContentOf(FileB)
  /\ PlacesOf(ContentOf(FileA)) = {}


\* the call p made alone, in one piece, on the filesystem f
Alone(f, p) == moveFile(f, cfg, p.source, p.destination, p.overwrite, p.createDirs)

\* the filesystem after call i and then call j, one after the other
OneAfterAnother(i, j) == Alone(Alone(RaceTree, run[i]).fs, run[j]).fs

\* two moves whose sources exist, whose destinations are absent, and whose
\* four paths are pairwise distinct
DistinctMoves ==
  /\ BothMoves
  /\ Cardinality({run[1].source, run[2].source,
                  run[1].destination, run[2].destination}) = 4
  /\ \A i \in {1, 2} : /\ run[i].source \in DOMAIN RaceTree
                       /\ run[i].destination \notin DOMAIN RaceTree

SucceedAndCommute ==
  /\ run[1].pc = "returned" /\ run[2].pc = "returned"
  /\ fs = OneAfterAnother(1, 2)
  /\ fs = OneAfterAnother(2, 1)

Unnested ==
  \A i \in {1, 2} : ~StartsWith(run[i].destination, run[3 - i].destination \o <<sep>>)

SameSource ==
  /\ RaceCalls
  /\ run[1].op = run[2].op
  /\ run[1].source = run[2].source
  /\ run[1].source \in DOMAIN RaceTree
  /\ run[1].op = "moveFile"
       => /\ run[1].destination # run[2].destination
          /\ \A i \in {1, 2} : run[i].destination \notin DOMAIN RaceTree

FileSystemErrorType ==
  {"PATH_NOT_ALLOWED", "FILE_NOT_FOUND", "FILE_ALREADY_EXISTS", "PERMISSION_DENIED",
   "SYMLINK_TARGET_INVALID", "DIRECTORY_NOT_EMPTY", "INVALID_OPERATION",
   "OPERATION_FAILED", "VALIDATION_ERROR"}

Successes == {i \in {1, 2} : run[i].pc = "returned"}

\* C30: of two concurrent calls that consume the same existing file, at most
\* one reports success and every other one fails with a FileSystemError;
\* after both, the content of the file is at the destination of the move
\* that succeeded and nowhere else, is nowhere after a delete that
\* succeeded, and is never at two places.
C30_OneConsumerWins ==
  (SameSource /\ BothSettled) =>
    /\ Cardinality(Successes) <= 1
    /\ \A i \in {1, 2} \ Successes :
         run[i].pc = "thrown" /\ run[i].kind \in FileSystemErrorType
    /\ Cardinality(PlacesOf(ContentOf(run[1].source))) <= 1
    /\ \A i \in Successes :
         PlacesOf(ContentOf(run[1].source))
           = IF run[i].op = "moveFile" THEN {run[i].vd} ELSE {}

\* both deleteFile calls passed the tests while /w/a was there; one removed
\* it, the unlink of the other failed
C30_Witness ==
  /\ SameSource /\ BothSettled
  /\ run[1].op = "deleteFile" /\ run[1].source = FileA
  /\ run[1].pc = "returned"
  /\ run[2].pc = "thrown" /\ run[2].kind = "OPERATION_FAILED"
  /\ PlacesOf(ContentOf(FileA)) = {}


(***************************************************************************)
(* SpecConfirm: a forced deleteFile, with the confirmation round trip as   *)
(* a wait of its own.  The answer and the failure of the request come from *)
(* outside the server; confirmSensitiveDeleteAction passes no timeout to   *)
(* elicitInput and starts no timer.                                        *)
(***************************************************************************)
Waiter(pc, validatedPath, kind, msg) ==
  [pc |-> pc, path |-> validatedPath, kind |-> kind, msg |-> msg]

\* validateForceDeleteOperation up to the await of elicitInput
guardBegin(c, available, validatedPath) ==
  IF ~c.allowForceDelete
    THEN Waiter("thrown", validatedPath, "PERMISSION_DENIED", "policy forbids force delete")
  ELSE IF ~c.forceDeleteRequiresConfirmation
    THEN Waiter("unlink", validatedPath, "NONE", "")
  ELSE IF ~available
    THEN Waiter("thrown", validatedPath, "PERMISSION_DENIED", "user cancelled force delete")
  ELSE Waiter("awaiting", validatedPath, "NONE", "")

\* deleteFile with force, down to the guard
forceDeleteBegin(f, c, available, v) ==
  IF ~v.ok THEN Waiter("thrown", <<>>, v.kind, "path")
  ELSE IF access(f, v.path) # "OK"
    THEN Waiter("thrown", v.path, "FILE_NOT_FOUND", "file does not exist")
  ELSE IF stat(f, v.path).node.kind = "dir"
    THEN Waiter("thrown", v.path, "INVALID_OPERATION", "path is a directory")
  ELSE guardBegin(c, available, v.path)

\* the guard resumed with the answer, or the error, of elicitInput
guardResumed(w, el) ==
  IF confirmSensitiveDeleteAction(el) THEN Waiter("unlink", w.path, "NONE", "")
  ELSE Waiter("thrown", w.path, "PERMISSION_DENIED", "user cancelled force delete")

ConfirmPaths == {FileA, FileR, FileK, DirD, NewN, LinkL, OutsideS}

InitConfirm ==
  /\ fs = OpsTree
  /\ cfg \in {SecurityConfig(TRUE, a, n, <<W>>) : a \in BOOLEAN, n \in BOOLEAN}
  /\ queue \in {<<Call("deleteFile", <<p>>, <<>>, FALSE, TRUE, TRUE, el)>> :
                  p \in ConfirmPaths, el \in {Unavailable, Throwing}}
  /\ last = NoCall
  /\ prev = NoCall
  /\ run = Idle
  /\ seen = NoRead

\* deleteFile(filePath, {force: true}) down to the await of elicitInput
ForceDeleteBegin ==
  /\ run.pc = "idle" /\ queue # <<>>
  /\ run' = forceDeleteBegin(fs, cfg, Head(queue).el.available,
                             validatePath(fs, cfg, Head(queue).paths[1]))
  /\ queue' = Tail(queue)
  /\ UNCHANGED <<fs, cfg, last, prev, seen>>

\* the external actor answers the form
ElicitAnswered ==
  /\ run.pc = "awaiting"
  /\ \E el \in {e \in ElicitEnvs : e.available /\ ~e.throws} :
       /\ run' = guardResumed(run, el)
       /\ seen' = el
  /\ UNCHANGED <<fs, cfg, queue, last, prev>>

\* the request fails in the host framework (connection closed, a timeout
\* of the framework): elicitInput throws
ElicitFailed ==
  /\ run.pc = "awaiting"
  /\ run' = guardResumed(run, Throwing)
  /\ seen' = Throwing
  /\ UNCHANGED <<fs, cfg, queue, last, prev>>

\* await fs.unlink(validatedPath) and the return
ForceDeleteUnlink ==
  /\ run.pc = "unlink"
  /\ LET u == unlink(fs, run.path) IN
     /\ fs' = u.fs
     /\ run' = IF u.err = "OK" THEN Waiter("returned", run.path, "NONE", "")
               ELSE Waiter("thrown", run.path, "OPERATION_FAILED", u.err)
  /\ UNCHANGED <<cfg, queue, last, prev, seen>>

NextConfirm ==
  \/ ForceDeleteBegin
  \/ ElicitAnswered
  \/ ElicitFailed
  \/ ForceDeleteUnlink

SpecConfirm == InitConfirm /\ [][NextConfirm]_vars

\* the continuation of the call runs once the wait is over; nothing makes
\* the external actor answer or the request fail
FairSpecConfirm == SpecConfirm /\ WF_vars(ForceDeleteUnlink)

Awaiting == run.pc = "awaiting"

\* C23: a force delete that waits for the confirmation does not wait for
\* ever: also when the external actor never answers, the wait ends and the
\* call terminates.
C23_WaitIsBounded == Awaiting ~> (run.pc \in {"returned", "thrown"})

\* a wait that ends with anything but an accept of both fields, a failure
\* of the request included, ends the call with PERMISSION_DENIED and
\* nothing deleted
C23_RejectionDeletesNothing ==
  (run.pc = "thrown" /\ seen # NoRead /\ ~confirmSensitiveDeleteAction(seen))
    => (run.kind = "PERMISSION_DENIED" /\ fs = OpsTree)


(***************************************************************************)
(* SpecServer: the process from its start.  main() reads the command line, *)
(* initializes the policy and connects; after that calls are served, two   *)
(* at a time, as in SpecRace.                                              *)
(***************************************************************************)
\* const SECURITY_CONFIG, as the module is loaded
SECURITY_CONFIG == SecurityConfig(TRUE, TRUE, TRUE, <<>>)

\* the initialization that leaves the list as it was
initializeSecurity_KeepsDefault(c, allowedDirectories) == c

initializeSecurity(c, allowedDirectories) ==
  [c EXCEPT !.allowedDirectories = allowedDirectories]

\* process.argv.slice(2): no argument means the working directory, a
\* relative path ends the process
parseAllowedDirectories(args) ==
  IF args = <<>> THEN [exit |-> FALSE, dirs |-> <<cwd>>]
  ELSE IF \E k \in 1..Len(args) : ~isAbsolute(args[k])
    THEN [exit |-> TRUE, dirs |-> <<>>]
  ELSE [exit |-> FALSE, dirs |-> args]

CommandLines == {<<>>, <<W>>, <<Outside>>, <<W, Outside>>, <<<<"w">>>>}

ServerProcs ==
  {Proc("moveFile", s, d, FALSE, TRUE) : s \in RaceSources, d \in RaceDestinations}
  \cup DeleteProcs

Process(pc, argv, dirs) == [pc |-> pc, argv |-> argv, dirs |-> dirs]

InitServer ==
  /\ fs = RaceTree
  /\ cfg = SECURITY_CONFIG
  /\ queue \in {<<p, q>> : p \in ServerProcs, q \in ServerProcs}
  /\ last = NoCall
  /\ prev = NoCall
  /\ run = <<>>
  /\ seen \in {Process("start", argv, <<>>) : argv \in CommandLines}

\* main(): parseAllowedDirectories, initializeSecurity, server.connect
Main ==
  /\ seen.pc = "start"
  /\ LET parsed == parseAllowedDirectories(seen.argv) IN
     IF parsed.exit
       THEN /\ seen' = Process("exited", seen.argv, <<>>)
            /\ UNCHANGED <<cfg, run>>
     ELSE /\ cfg' = initializeSecurity(cfg, parsed.dirs)
          /\ run' = queue
          /\ seen' = Process("serving", seen.argv, parsed.dirs)
  /\ queue' = <<>>
  /\ UNCHANGED <<fs, last, prev>>

NextServer == Main \/ NextRace

SpecServer == InitServer /\ [][NextServer]_vars

Serving == seen.pc = "serving"

\* C25: once main() has initialized it, the policy keeps the values of the
\* start for good: the allowed directories of the command line and the
\* three flags of SECURITY_CONFIG, at every step of every call and under
\* every interleaving of two calls.
C25_PolicyFixedAfterStart ==
  Serving => cfg = SecurityConfig(TRUE, TRUE, TRUE, seen.dirs)

\* two calls were served under the policy of the command line /w /x: one
\* moved a file, and the policy is the one main() set
C25_Witness ==
  /\ Serving /\ BothSettled
  /\ seen.argv = <<W, Outside>>
  /\ cfg.allowedDirectories = <<W, Outside>>
  /\ run[1].op = "moveFile" /\ run[1].pc = "returned"
  /\ fs # RaceTree


(***************************************************************************)
(* The order of the turns of a batch                                       *)
(***************************************************************************)
\* the validated path of item k of the last call
ItemPath(k) == authorizedPath(last.call.paths[k])

\* the path the turn of item k works on
ItemTarget(k) ==
  IF last.op = "batchDeleteFiles" THEN ItemPath(k)
  ELSE join(authorizedPath(last.call.dest), basename(ItemPath(k)))

\* the turns that ended with the push e
TurnsPushing(e) ==
  {k \in 1..Len(last.call.paths) :
     \E i \in PushesOf(last.res.log, k) : last.res.log[i].e = e}

\* the entries are those of the turns, one each, in the order of the turns
InInputOrder(entries, turns) ==
  /\ Len(entries) = Cardinality(turns)
  /\ \A j \in 1..Len(entries) :
       \E k \in turns :
         /\ Cardinality({m \in turns : m <= k}) = j
         /\ entries[j].path \in {last.call.paths[k], ItemPath(k)}

\* C24: a batch call takes its items one after the other in input order:
\* every validatePath and every mutation made between the start of the turn
\* of item i and the start of the turn of item i+1 concerns item i, and the
\* entries of results and of errors are in input order.
C24_TurnsInInputOrder ==
  BatchReturned =>
    /\ \A i \in At(last.res.log, Mutations) :
         IF TurnOf(last.res.log, i) = 0
           THEN last.res.log[i] = Event("mkdir", authorizedPath(last.call.dest))
         ELSE last.res.log[i].path
                \in {ItemTarget(TurnOf(last.res.log, i)),
                     dirname(ItemTarget(TurnOf(last.res.log, i)))}
    /\ \A i \in At(last.res.log, {"validatePath"}) :
         TurnOf(last.res.log, i) > 0 =>
           last.res.log[i].path \in {last.call.paths[TurnOf(last.res.log, i)],
                                     ItemPath(TurnOf(last.res.log, i)),
                                     ItemTarget(TurnOf(last.res.log, i))}
    /\ InInputOrder(last.res.out.results, TurnsPushing("results.push"))
    /\ InInputOrder(last.res.out.errors, TurnsPushing("errors.push"))

\* /w/a and /w/b were moved into /w/e, in this order
C24_Witness ==
  /\ last.op = "batchMoveFiles" /\ last.res.ok
  /\ last.call.paths = <<FileA, FileB>> /\ last.call.dest = DirE
  /\ Len(last.res.out.results) = 2
  /\ last.res.out.results[1].path = FileA /\ last.res.out.results[2].path = FileB
  /\ At(last.res.log, {"rename"}) # {}
  /\ FileA \notin DOMAIN fs /\ FileB \notin DOMAIN fs


(***************************************************************************)
(* The destination of batchMoveFiles and batchCopyFiles                    *)
(***************************************************************************)
BatchTransfer == last.op \in {"batchMoveFiles", "batchCopyFiles"}

ValidatedDestination == validatePath(last.pre, cfg, last.call.dest)

\* the stat of the validated destination at the start of the call
DestinationStats == stat(last.pre, ValidatedDestination.path)

NothingTransferred ==
  /\ At(last.res.log, {"item", "rename", "copyFile"}) = {}
  /\ fs = last.pre

\* C26: batchMoveFiles and batchCopyFiles settle the destination before any
\* item: a destination that exists and is no directory fails the call with
\* INVALID_OPERATION and nothing is moved or copied; a missing destination
\* is created when createDirs is true and fails the call with
\* FILE_NOT_FOUND when createDirs is false.
C26_DestinationSettledFirst ==
  (BatchTransfer /\ ValidatedDestination.ok) =>
    /\ (DestinationStats.err = "OK" /\ DestinationStats.node.kind # "dir")
         => (~last.res.ok /\ last.res.kind = "INVALID_OPERATION" /\ NothingTransferred)
    /\ (DestinationStats.err # "OK" /\ last.call.createDirs)
         => /\ last.res.ok
            /\ last.res.log[2] = Event("mkdir", ValidatedDestination.path)
            /\ ValidatedDestination.path \in DOMAIN fs
            /\ fs[ValidatedDestination.path].kind = "dir"
    /\ (DestinationStats.err # "OK" /\ ~last.call.createDirs)
         => (~last.res.ok /\ last.res.kind = "FILE_NOT_FOUND" /\ NothingTransferred)

\* the part of C26 that holds for both functions: the call fails, whatever
\* the kind, and nothing is moved or copied
C26_FileDestinationFails ==
  (/\ BatchTransfer /\ ValidatedDestination.ok
   /\ DestinationStats.err = "OK" /\ DestinationStats.node.kind # "dir")
    => (~last.res.ok /\ NothingTransferred)

\* batchCopyFiles with createDirs onto the file /w/b fails at the mkdir
C26_Witness ==
  /\ last.op = "batchCopyFiles" /\ last.call.dest = FileB /\ last.call.createDirs
  /\ ~last.res.ok /\ last.res.kind = "OPERATION_FAILED"
  /\ At(last.res.log, {"mkdir"}) # {}


(***************************************************************************)
(* Overwrite in renameFileOrDirectory, createHardLink and createSoftLink   *)
(***************************************************************************)
OverwriteCall ==
  /\ last.op \in {"renameFileOrDirectory", "createHardLink", "createSoftLink"}
  /\ last.call.overwrite

\* the validated destination of the last call
NewPlace == authorizedPath(last.call.dest)

\* the entry that was at the destination before the call is still there
NewPlaceKept == NewPlace \in DOMAIN fs /\ fs[NewPlace] = last.pre[NewPlace]

\* C28: with overwrite=true a rename, a hard link or a symlink either
\* replaces the destination or leaves it as it was: when the call fails the
\* entry that was at the destination is still in place, and when source
\* and destination are the same path the entry survives the call.
C28_OverwriteAllOrNothing ==
  (OverwriteCall /\ last.call.dest # <<>> /\ NewPlace \in DOMAIN last.pre) =>
    /\ ~last.res.ok => NewPlaceKept
    /\ authorizedPath(last.call.paths[1]) = NewPlace => NewPlaceKept

\* the rename of /w/a onto itself with overwrite ended in an error, and
\* /w/a is gone
C28_Witness ==
  /\ OverwriteCall /\ last.op = "renameFileOrDirectory"
  /\ last.call.paths = <<FileA>> /\ last.call.dest = FileA
  /\ ~last.res.ok
  /\ FileA \in DOMAIN last.pre /\ FileA \notin DOMAIN fs


(***************************************************************************)
(* Two sources of one batch with the same base name                        *)
(***************************************************************************)
\* destination/basename of the first source
SharedTarget == join(authorizedPath(last.call.dest), basename(ItemPath(1)))

\* a batch move or copy without overwrite that returned, of two existing
\* sources from different directories with the same base name, into a
\* destination that has no entry of that name yet
SameNameBatch ==
  /\ BatchTransfer /\ last.res.ok /\ ~last.call.overwrite
  /\ Len(last.call.paths) = 2
  /\ \A k \in {1, 2} : last.call.paths[k] \in DOMAIN last.pre
  /\ dirname(ItemPath(1)) # dirname(ItemPath(2))
  /\ basename(ItemPath(1)) = basename(ItemPath(2))
  /\ SharedTarget \notin DOMAIN last.pre

\* C29: of two sources of a batch move or copy with overwrite=false that
\* share a base name, the first is transferred to destination/basename and
\* the second is recorded in errors as finding the destination there: the
\* file the first item placed is not overwritten and the second source stays
\* where it was.
C29_SameNameSecondRefused ==
  SameNameBatch =>
    /\ last.res.out.results
         = <<ResultEntry(IF last.op = "batchMoveFiles" THEN "rename" ELSE "copyFile",
                         ItemPath(1), SharedTarget)>>
    /\ last.res.out.errors
         = <<ErrorEntry("FILE_ALREADY_EXISTS", "destination exists", ItemPath(2))>>
    /\ SharedTarget \in DOMAIN fs
    /\ fs[SharedTarget] = last.pre[ItemPath(1)]
    /\ ItemPath(2) \in DOMAIN fs /\ fs[ItemPath(2)] = last.pre[ItemPath(2)]
    /\ (ItemPath(1) \in DOMAIN fs) <=> (last.op = "batchCopyFiles")

\* /w/d/a and /w/a were moved into /w/e: /w/e/a holds the content of /w/d/a
\* and /w/a is where it was
C29_Witness ==
  /\ SameNameBatch /\ last.op = "batchMoveFiles"
  /\ last.call.paths = <<FileDA, FileA>> /\ last.call.dest = DirE
  /\ fs[SharedTarget].data = OpsTree[FileDA].data
  /\ FileA \in DOMAIN fs /\ FileDA \notin DOMAIN fs
  /\ Len(last.res.out.errors) = 1

====
